---------------------------- MODULE Spec2Model ----------------------------
(***************************************************************************)
(* A model of the feed-forward classifier engine of SuperiorityQuadraticNN *)
(* (src/LNN.py, src/QNN.py, src/special.py): network construction, the     *)
(* forward pass, the analytic and the numerical gradient, the four         *)
(* optimizers, the metric queries and LNN.train with its early stopping.   *)
(*                                                                         *)
(* numpy's float64 arithmetic is modelled by decimal floating point: a     *)
(* number is <<m, e>>, standing for m * 10^e, with a mantissa of Digits    *)
(* significant digits (0 is <<0, 0>>).  Every operation rounds toward zero *)
(* to Digits digits, as float64 rounds to 53 bits.  A tensor is            *)
(* [sh |-> shape, d |-> the elements in row-major order].                  *)
(***************************************************************************)
EXTENDS Integers, Sequences, FiniteSets, TLC

\* ------------------------------------------------------------------------
\* Decimal floating point
\* ------------------------------------------------------------------------

\* f with every element computed once (TLC otherwise recomputes the elements
\* of [n \in S |-> e] at each application)
Eval(f) == IF f = f THEN f ELSE f

\* e, with x computed first: the statements of a method run in order, each on
\* the finished result of the one before
Then(x, e) == IF x = x THEN e ELSE e

\* Significant decimal digits kept by every floating-point operation.
Digits == 7

RECURSIVE Pow10(_)
Pow10(n) == IF n <= 0 THEN 1 ELSE 10 * Pow10(n - 1)

MantLo == Pow10(Digits - 1)
MantHi == Pow10(Digits)

Abs(x) == IF x < 0 THEN 0 - x ELSE x
Sgn(x) == IF x < 0 THEN 0 - 1 ELSE IF x = 0 THEN 0 ELSE 1
Min(a, b) == IF a < b THEN a ELSE b
Max(a, b) == IF a < b THEN b ELSE a

\* Integer quotient rounded toward zero.
Quot(m, d) == Sgn(m) * (Abs(m) \div d)

\* <<m, e>> brought to a mantissa of exactly Digits digits.
RECURSIVE Norm(_, _)
Norm(m, e) ==
    IF m = 0 THEN <<0, 0>>
    ELSE IF Abs(m) >= MantHi THEN Norm(Quot(m, 10), e + 1)
    ELSE IF Abs(m) < MantLo THEN Norm(m * 10, e - 1)
    ELSE <<m, e>>

\* floor(a * b / 10^(Digits-1)) for mantissas 0 <= a, b < 10^Digits, by
\* schoolbook multiplication on limbs of four digits (5 <= Digits <= 8), so
\* that no intermediate value leaves the 32-bit integers.
MulMant(a, b) ==
    LET a1 == a \div 10000
        a0 == a % 10000
        b1 == b \div 10000
        b0 == b % 10000
    IN  a1 * b1 * Pow10(9 - Digits)
          + ((a1 * b0 + a0 * b1 + ((a0 * b0) \div 10000)) \div Pow10(Digits - 5))

\* floor(a * 10^n / c) for 0 <= a and 0 < c < 10^Digits, by long division:
\* q is the quotient so far and r < c the remainder.
RECURSIVE LongDiv(_, _, _, _)
LongDiv(q, r, c, n) ==
    IF n = 0 THEN q
    ELSE LongDiv(10 * q + ((10 * r) \div c), (10 * r) % c, c, n - 1)

DivMant(a, c, n) == LongDiv(a \div c, a % c, c, n)

FZero == <<0, 0>>
FInt(n) == Norm(n, 0)
FDec(m, e) == Norm(m, e)
FOne == FInt(1)
FNeg(x) == <<0 - x[1], x[2]>>
FAbs(x) == <<Abs(x[1]), x[2]>>
FIsZero(x) == x[1] = 0

FAddOrdered(x, y) ==
    \* x has the larger exponent; one guard digit is kept
    LET d == x[2] - y[2]
    IN  IF d > Digits + 1 THEN x
        ELSE IF d = 0 THEN Norm(x[1] + y[1], x[2])
        ELSE Norm(x[1] * 10 + Quot(y[1], Pow10(d - 1)), x[2] - 1)

FAdd(x, y) ==
    IF x[1] = 0 THEN y
    ELSE IF y[1] = 0 THEN x
    ELSE IF x[2] >= y[2] THEN FAddOrdered(x, y)
    ELSE FAddOrdered(y, x)

FSub(x, y) == FAdd(x, FNeg(y))

FMul(x, y) ==
    IF x[1] = 0 \/ y[1] = 0 THEN FZero
    ELSE Norm(Sgn(x[1]) * Sgn(y[1]) * MulMant(Abs(x[1]), Abs(y[1])),
              x[2] + y[2] + Digits - 1)

\* x / y for y # 0
FDiv(x, y) ==
    IF x[1] = 0 THEN FZero
    ELSE Norm(Sgn(x[1]) * Sgn(y[1]) * DivMant(Abs(x[1]), Abs(y[1]), Digits),
              x[2] - y[2] - Digits)

FLt(x, y) == FSub(x, y)[1] < 0
FLe(x, y) == FSub(x, y)[1] <= 0
FMax(x, y) == IF FLt(x, y) THEN y ELSE x

FSquare(x) == FMul(x, x)

\* x ** n for an integer n >= 0
RECURSIVE FPow(_, _)
FPow(x, n) == IF n = 0 THEN FOne ELSE FMul(x, FPow(x, n - 1))

\* floor(sqrt(m * 10^k)) by Newton's iteration from a guess r above the root
RECURSIVE ISqrtNewton(_, _, _)
ISqrtNewton(m, k, r) ==
    LET r1 == (r + DivMant(m, r, k)) \div 2
    IN  IF r1 >= r THEN r ELSE ISqrtNewton(m, k, r1)

\* sqrt(x) for x >= 0
FSqrt(x) ==
    IF x[1] <= 0 THEN FZero
    ELSE LET k == IF (x[2] - Digits) % 2 = 0 THEN Digits ELSE Digits - 1
         IN  Norm(ISqrtNewton(x[1], k, MantHi), (x[2] - k) \div 2)

RECURSIVE Pow2(_)
Pow2(n) == IF n <= 0 THEN 1 ELSE 2 * Pow2(n - 1)

\* the number of halvings that bring |x| below 1/4
RECURSIVE ExpHalvings(_)
ExpHalvings(x) ==
    IF FLt(FAbs(x), FDec(25, 0 - 2)) THEN 0
    ELSE 1 + ExpHalvings(FMul(x, FDec(5, 0 - 1)))

\* 1 + y/1 * (1 + y/2 * (... (1 + y/k * s))): the exponential series of y by
\* Horner's rule, s being the value of the terms after the k-th
RECURSIVE ExpSeries(_, _, _)
ExpSeries(y, k, s) ==
    IF k = 0 THEN s
    ELSE Then(s, ExpSeries(y, k - 1, FAdd(FOne, FMul(FDiv(y, FInt(k)), s))))

\* v ** (2 ** j)
RECURSIVE SquareTimes(_, _)
SquareTimes(v, j) == IF j = 0 \/ v[1] = 0 THEN v ELSE SquareTimes(FSquare(v), j - 1)

ExpScaled(x, j) == SquareTimes(ExpSeries(FDiv(x, FInt(Pow2(j))), Digits + 1, FOne), j)

\* np.exp(x)
FExp(x) == ExpScaled(x, ExpHalvings(x))

Ln2 == FDec(693147180, 0 - 9)

\* y > 0 as <<u, c>> with y = u * 2^c and 3/4 <= u < 3/2, by steps of 2^10
\* while y is outside 2^-10 .. 2^10
RECURSIVE LogReduce(_, _)
LogReduce(y, c) ==
    IF FLe(FInt(1024), y) THEN LogReduce(FDiv(y, FInt(1024)), c + 10)
    ELSE IF FLt(y, FDec(9765625, 0 - 10))
    THEN LogReduce(FMul(y, FInt(1024)), c - 10)
    ELSE IF FLe(FDec(15, 0 - 1), y) THEN LogReduce(FMul(y, FDec(5, 0 - 1)), c + 1)
    ELSE IF FLt(y, FDec(75, 0 - 2)) THEN LogReduce(FMul(y, FInt(2)), c - 1)
    ELSE <<y, c>>

\* 1/1 + z2 * (1/3 + z2 * (... (1/k + z2 * s))): the series of atanh(z) / z
\* in z2 = z * z by Horner's rule, s being the value of the terms after 1/k
RECURSIVE AtanhSeries(_, _, _)
AtanhSeries(z2, k, s) ==
    IF k < 1 THEN s
    ELSE Then(s, AtanhSeries(z2, k - 2, FAdd(FDiv(FOne, FInt(k)), FMul(z2, s))))

\* 2 * atanh(z) = log((1 + z) / (1 - z))
TwoAtanh(z) ==
    FMul(FInt(2), FMul(z, AtanhSeries(FSquare(z), 2 * Digits - 1, FZero)))

LogReduced(uc) ==
    FAdd(TwoAtanh(FDiv(FSub(uc[1], FOne), FAdd(uc[1], FOne))),
         FMul(FInt(uc[2]), Ln2))

\* np.log(y) for y > 0
FLog(y) == LogReduced(LogReduce(y, 0))

\* ------------------------------------------------------------------------
\* Tensors (numpy arrays)
\* ------------------------------------------------------------------------

Zeros(r, c) == [sh |-> <<r, c>>, d |-> [i \in 1 .. r * c |-> FZero]]

Size(t) == Len(t.d)
Cols(t) == t.sh[Len(t.sh)]

\* every r x c array whose elements are drawn from vals
ArraysOver(r, c, vals) == {[sh |-> <<r, c>>, d |-> dd] : dd \in [1 .. r * c -> vals]}

\* numpy's in-place "t op= g" is defined when g has t's shape or is a
\* 1-D array as long as a row of t (broadcasting); otherwise it raises.
Broadcasts(t, g) ==
    \/ g.sh = t.sh
    \/ Len(g.sh) = 1 /\ Len(t.sh) = 2 /\ g.sh[1] = t.sh[2]

\* the element of g that numpy pairs with the i-th element of t
BElem(t, g, i) == IF g.sh = t.sh THEN g.d[i] ELSE g.d[((i - 1) % Cols(t)) + 1]

ScaleBy(sd, t) == [sh |-> t.sh, d |-> [i \in 1 .. Size(t) |-> FMul(sd, t.d[i])]]

Rows(t) == t.sh[1]

\* t[i - 1][j - 1]
At(t, i, j) == t.d[(i - 1) * Cols(t) + j]

\* the r x c array whose element in row i and column j is F(i, j)
Mat(r, c, F(_, _)) ==
    [sh |-> <<r, c>>,
     d  |-> Eval([n \in 1 .. r * c |-> F(((n - 1) \div c) + 1, ((n - 1) % c) + 1)])]

Map(t, F(_)) == [sh |-> t.sh, d |-> Eval([n \in 1 .. Size(t) |-> F(t.d[n])])]

\* s[1] + ... + s[n]
RECURSIVE FSum(_, _)
FSum(s, n) == IF n = 0 THEN FZero ELSE FAdd(FSum(s, n - 1), s[n])

\* np.dot(a, b) for Cols(a) = Rows(b)
Dot(a, b) ==
    Mat(Rows(a), Cols(b),
        LAMBDA i, j : FSum([k \in 1 .. Cols(a) |-> FMul(At(a, i, k), At(b, k, j))],
                           Cols(a)))

\* a.T
Transpose(a) == Mat(Cols(a), Rows(a), LAMBDA i, j : At(a, j, i))

\* z + b for a bias b of shape (1, Cols(z))
AddBias(z, b) == Mat(Rows(z), Cols(z), LAMBDA i, j : FAdd(At(z, i, j), b.d[j]))

\* np.sum(t)
SumAll(t) == FSum(t.d, Size(t))

\* np.sum(t, axis=0): the 1-D array of the column sums
SumAxis0(t) ==
    [sh |-> <<Cols(t)>>,
     d  |-> Eval([j \in 1 .. Cols(t) |->
                    FSum([i \in 1 .. Rows(t) |-> At(t, i, j)], Rows(t))])]

\* ------------------------------------------------------------------------
\* Activation functions
\* ------------------------------------------------------------------------

relu(x) == Map(x, LAMBDA v : FMax(FZero, v))

sigmoid(x) == Map(x, LAMBDA v : FDiv(FOne, FAdd(FOne, FExp(FNeg(v)))))

\* the largest of the first j elements of row i
RECURSIVE RowMax(_, _, _)
RowMax(x, i, j) == IF j = 1 THEN At(x, i, 1) ELSE FMax(RowMax(x, i, j - 1), At(x, i, j))

\* np.exp(x - max) row by row
ExpShifted(x) ==
    Mat(Rows(x), Cols(x), LAMBDA i, j : FExp(FSub(At(x, i, j), RowMax(x, i, Cols(x)))))

RowSum(e, i) == FSum([j \in 1 .. Cols(e) |-> At(e, i, j)], Cols(e))

\* e / sum(e) row by row
RowNormalized(e) == Mat(Rows(e), Cols(e), LAMBDA i, j : FDiv(At(e, i, j), RowSum(e, i)))

Normalized(e) == Then(e, RowNormalized(e))

\* softmax of a 2-D array: each row shifted by its maximum, exponentiated and
\* divided by its sum
softmax(x) == Then(x, Normalized(ExpShifted(x)))

\* activation_func[l](z); the dictionary holds the functions by name
Activate(f, z) ==
    CASE f = "relu"    -> relu(z)
      [] f = "sigmoid" -> sigmoid(z)
      [] f = "softmax" -> softmax(z)

\* ------------------------------------------------------------------------
\* Construction: LNN.__init__ / initialize_network, QNN.__init__ / initialize_network
\* ------------------------------------------------------------------------

\* a Python dict keyed 0 .. n-1 is a function on 0 .. n-1; len() is its size
DictLen(f) == Cardinality(DOMAIN f)

NodeFrom(D, neuron_num, l) == IF l = 0 THEN D ELSE neuron_num[l - 1]

LNNKeys(L) == {<<r, l>> : r \in {"w", "b"}, l \in 0 .. L - 1}
QNNKeys(L) == {<<r, l>> : r \in {"wr", "wg", "wb", "br", "bg", "bb"}, l \in 0 .. L - 1}

IsWeight(key) == key[1] \in {"w", "wr", "wg", "wb"}

KeyShape(D, neuron_num, key) ==
    IF IsWeight(key) THEN <<NodeFrom(D, neuron_num, key[2]), neuron_num[key[2]]>>
    ELSE <<1, neuron_num[key[2]]>>

\* the standard deviation of the initial weights of layer l
LNNsd(activation_func, node_from, l) == FDec(1, 0 - 2)

\* the same scale 0.01 for every layer of a QNN
QNNsdConstant(activation_func, node_from, l) == FDec(1, 0 - 2)

QNNsd(activation_func, node_from, l) ==
    IF activation_func[l] = "sigmoid" THEN FSqrt(FDiv(FOne, FInt(node_from)))
    ELSE IF activation_func[l] = "relu" THEN FSqrt(FDiv(FInt(2), FInt(node_from)))
    ELSE FDec(1, 0 - 2)

NoRecords == [n \in {"iteration", "train_time", "train_loss", "valid_loss",
                     "train_accuracy", "valid_accuracy", "train_precision",
                     "valid_precision", "test_loss", "test_accuracy"} |-> <<>>]

NoNet == [kind |-> "none"]

\* The object LNN(dimension, neuron_num, activation_func) builds; randn[key] is
\* the array np.random.randn returns for the weight key.  printed records the
\* message initialize_network prints when the activation count differs from L.
NewLNN(dimension, neuron_num, activation_func, randn) ==
    LET L    == DictLen(neuron_num)
        keys == LNNKeys(L)
        zero == [k \in keys |-> Zeros(KeyShape(dimension, neuron_num, k)[1],
                                      KeyShape(dimension, neuron_num, k)[2])]
    IN  [kind |-> "LNN", L |-> L, D |-> dimension, K |-> neuron_num[L - 1],
         neuron_num |-> neuron_num, activation_func |-> activation_func,
         para |-> [k \in keys |->
                     IF IsWeight(k)
                     THEN ScaleBy(LNNsd(activation_func,
                                        NodeFrom(dimension, neuron_num, k[2]), k[2]),
                                  randn[k])
                     ELSE zero[k]],
         h |-> zero, m |-> zero, v |-> zero,
         rec |-> NoRecords,
         printed |-> DictLen(activation_func) # L]

\* QNN(dimension, neuron_num, activation_func): initialize_network reads
\* activation_func[l] for every layer, which raises KeyError for a missing l.
QNNRaises(neuron_num, activation_func) ==
    \E l \in 0 .. DictLen(neuron_num) - 1 : l \notin DOMAIN activation_func

NewQNN(dimension, neuron_num, activation_func, randn) ==
    LET L    == DictLen(neuron_num)
        keys == QNNKeys(L)
        zero == [k \in keys |-> Zeros(KeyShape(dimension, neuron_num, k)[1],
                                      KeyShape(dimension, neuron_num, k)[2])]
    IN  [kind |-> "QNN", L |-> L, D |-> dimension, K |-> neuron_num[L - 1],
         neuron_num |-> neuron_num, activation_func |-> activation_func,
         para |-> [k \in keys |->
                     IF IsWeight(k)
                     THEN ScaleBy(QNNsd(activation_func,
                                        NodeFrom(dimension, neuron_num, k[2]), k[2]),
                                  randn[k])
                     ELSE zero[k]],
         h |-> zero, m |-> zero, v |-> zero,
         rec |-> NoRecords,
         printed |-> DictLen(activation_func) # L]

\* ------------------------------------------------------------------------
\* The four optimizers (identical in LNN and QNN)
\* ------------------------------------------------------------------------

\* delta = 1e-7 of AdaGrad, RMSprop and Adam
delta == FDec(1, 0 - 7)

\* optimizer_para of src/special.py
DefaultOptimizerPara ==
    [lr |-> FDec(1, 0 - 2), decay_rate |-> FDec(99, 0 - 2),
     beta1 |-> FDec(9, 0 - 1), beta2 |-> FDec(999, 0 - 3), iter |-> 0]

\* A gradient set is a Python dict: a sequence of <<key, array>> in insertion
\* order, the keys distinct.
GradKeys(grad) == {grad[i][1] : i \in 1 .. Len(grad)}

\* One key of one optimizer: the object after "for key in grad.keys()" has
\* processed key with gradient g.  dec is the array subtracted from para[key].
Decrement(net, key, dec) ==
    [sh |-> net.para[key].sh,
     d  |-> [i \in 1 .. Size(net.para[key]) |-> FSub(net.para[key].d[i], dec[i])]]

SGDKey(net, key, g, para) ==
    LET p   == net.para[key]
        dec == [i \in 1 .. Size(p) |-> FMul(para.lr, BElem(p, g, i))]
    IN  [net |-> [net EXCEPT !.para[key] = Decrement(net, key, dec)], dec |-> dec]

AdaGradKey(net, key, g, para) ==
    LET p   == net.para[key]
        h1  == [sh |-> net.h[key].sh,
                d  |-> [i \in 1 .. Size(net.h[key]) |->
                          FAdd(net.h[key].d[i], FSquare(BElem(net.h[key], g, i)))]]
        dec == [i \in 1 .. Size(p) |->
                  FDiv(FMul(para.lr, BElem(p, g, i)), FAdd(FSqrt(h1.d[i]), delta))]
    IN  [net |-> [net EXCEPT !.h[key] = h1, !.para[key] = Decrement(net, key, dec)],
         dec |-> dec]

\* RMSprop whose h keeps nothing of its previous value
RMSpropKeyForgetsH(net, key, g, para) ==
    LET p   == net.para[key]
        h1  == [sh |-> net.h[key].sh,
                d  |-> [i \in 1 .. Size(net.h[key]) |->
                          FMul(FSub(FOne, para.decay_rate),
                               FSquare(BElem(net.h[key], g, i)))]]
        dec == [i \in 1 .. Size(p) |->
                  FDiv(FMul(para.lr, BElem(p, g, i)), FAdd(FSqrt(h1.d[i]), delta))]
    IN  [net |-> [net EXCEPT !.h[key] = h1, !.para[key] = Decrement(net, key, dec)],
         dec |-> dec]

RMSpropKey(net, key, g, para) ==
    LET p   == net.para[key]
        h1  == [sh |-> net.h[key].sh,
                d  |-> [i \in 1 .. Size(net.h[key]) |->
                          FAdd(FMul(net.h[key].d[i], para.decay_rate),
                               FMul(FSub(FOne, para.decay_rate),
                                    FSquare(BElem(net.h[key], g, i))))]]
        dec == [i \in 1 .. Size(p) |->
                  FDiv(FMul(para.lr, BElem(p, g, i)), FAdd(FSqrt(h1.d[i]), delta))]
    IN  [net |-> [net EXCEPT !.h[key] = h1, !.para[key] = Decrement(net, key, dec)],
         dec |-> dec]

\* lr_t of Adam, computed after para["iter"] += 1
AdamLr(para) ==
    FDiv(FMul(para.lr, FSqrt(FSub(FOne, FPow(para.beta2, para.iter)))),
         FSub(FOne, FPow(para.beta1, para.iter)))

AdamKey(net, key, g, para) ==
    LET p   == net.para[key]
        m1  == [sh |-> net.m[key].sh,
                d  |-> [i \in 1 .. Size(net.m[key]) |->
                          FAdd(net.m[key].d[i],
                               FMul(FSub(FOne, para.beta1),
                                    FSub(BElem(net.m[key], g, i), net.m[key].d[i])))]]
        v1  == [sh |-> net.v[key].sh,
                d  |-> [i \in 1 .. Size(net.v[key]) |->
                          FAdd(net.v[key].d[i],
                               FMul(FSub(FOne, para.beta2),
                                    FSub(FSquare(BElem(net.v[key], g, i)),
                                         net.v[key].d[i])))]]
        lr_t == AdamLr(para)
        dec == [i \in 1 .. Size(p) |->
                  FDiv(FMul(lr_t, m1.d[i]), FAdd(FSqrt(v1.d[i]), delta))]
    IN  [net |-> [net EXCEPT !.m[key] = m1, !.v[key] = v1,
                             !.para[key] = Decrement(net, key, dec)],
         dec |-> dec]

OptKey(opt, net, key, g, para) ==
    CASE opt = "SGD"     -> SGDKey(net, key, g, para)
      [] opt = "AdaGrad" -> AdaGradKey(net, key, g, para)
      [] opt = "RMSprop" -> RMSpropKey(net, key, g, para)
      [] opt = "Adam"    -> AdamKey(net, key, g, para)

\* "for key in grad.keys(): ..." from the i-th entry of grad on.  A key the
\* object does not hold raises KeyError and an array that does not broadcast
\* raises ValueError, the entries before it already applied.
RECURSIVE OptLoop(_, _, _, _, _, _)
OptLoopRest(opt, one, grad, para, i, decs) ==
    OptLoop(opt, one.net, grad, para, i + 1, Append(decs, <<grad[i][1], one.dec>>))

OptLoop(opt, net, grad, para, i, decs) ==
    IF i > Len(grad) THEN [net |-> net, err |-> "none", decs |-> decs]
    ELSE IF grad[i][1] \notin DOMAIN net.para
         THEN [net |-> net, err |-> "KeyError", decs |-> decs]
    ELSE IF ~Broadcasts(net.para[grad[i][1]], grad[i][2])
         THEN [net |-> net, err |-> "ValueError", decs |-> decs]
    ELSE OptLoopRest(opt, OptKey(opt, net, grad[i][1], grad[i][2], para),
                     grad, para, i, decs)

\* the object and the options dict as a call leaves them
Returned(r, para) == [net |-> r.net, para |-> para, err |-> r.err, decs |-> r.decs]

\* para["iter"] += 1
CountIter(para) == [para EXCEPT !.iter = para.iter + 1]

\* A call of the bound method net.<opt>(grad, para): the object and the options
\* dict after the call.  decs lists, per key, the array subtracted from para[key].
SGD(net, grad, para) == Returned(OptLoop("SGD", net, grad, para, 1, <<>>), para)

AdaGrad(net, grad, para) == Returned(OptLoop("AdaGrad", net, grad, para, 1, <<>>), para)

RMSprop(net, grad, para) == Returned(OptLoop("RMSprop", net, grad, para, 1, <<>>), para)

AdamFrom(net, grad, para1) == Returned(OptLoop("Adam", net, grad, para1, 1, <<>>), para1)

\* the object with its v also stored as h
AlsoInH(r) == [r EXCEPT !.net.h = r.net.v]

\* Adam with the squared-gradient average also written to h, as RMSprop does
AdamWritesH(net, grad, para) == AlsoInH(AdamFrom(net, grad, CountIter(para)))

\* Adam with para["iter"] += 1 inside the loop over the keys
AdamCountsKeys(net, grad, para) ==
    AdamFrom(net, grad, [para EXCEPT !.iter = para.iter + Len(grad)])

Adam(net, grad, para) == AdamFrom(net, grad, CountIter(para))

Optimizers == {"SGD", "AdaGrad", "RMSprop", "Adam"}

CallOptimizer(opt, net, grad, para) ==
    CASE opt = "SGD"     -> SGD(net, grad, para)
      [] opt = "AdaGrad" -> AdaGrad(net, grad, para)
      [] opt = "RMSprop" -> RMSprop(net, grad, para)
      [] opt = "Adam"    -> Adam(net, grad, para)


\* ------------------------------------------------------------------------
\* Estimators: predict, CRE, accuracy, precision
\* ------------------------------------------------------------------------

\* z = np.dot(a, w) + b
Affine(net, a, w, b, l) == AddBias(Dot(a, net.para[<<w, l>>]), net.para[<<b, l>>])

\* z = zr * zg + zb of a quadratic layer
Quadratic(zr, zg, zb) ==
    Mat(Rows(zr), Cols(zr),
        LAMBDA i, j : FAdd(FMul(At(zr, i, j), At(zg, i, j)), At(zb, i, j)))

QNNz(net, a, l) ==
    Quadratic(Affine(net, a, "wr", "br", l), Affine(net, a, "wg", "bg", l),
              Affine(net, Map(a, FSquare), "wb", "bb", l))

\* the pre-activation z of layer l for the input a
LayerZ(net, a, l) ==
    IF net.kind = "LNN" THEN Affine(net, a, "w", "b", l) ELSE QNNz(net, a, l)

\* "for l in range(self.L): ... a = self.activation_func[l](z)" from layer l on
RECURSIVE Forward(_, _, _)
Forward(net, a, l) ==
    IF l = net.L THEN a
    ELSE Then(a, Forward(net, Activate(net.activation_func[l], LayerZ(net, a, l)),
                         l + 1))

\* the exception predict raises: np.dot on a sample matrix whose width is not
\* D, then the lookup of a missing activation_func[l]
PredictErr(net, point) ==
    IF Cols(point) # net.D THEN "ValueError"
    ELSE IF \E l \in 0 .. net.L - 1 : l \notin DOMAIN net.activation_func
    THEN "KeyError"
    ELSE "none"

predict(net, point) == Then(<<net, point>>, Forward(net, point, 0))

\* what a call returns, or the exception it raises
Ok(v) == [val |-> v, err |-> "none"]
Raised(e) == [val |-> <<>>, err |-> e]

\* numpy pairs t[i][j] of a (1, c), (r, 1) or (r, c) array with y[i][j]
BroadcastAt(t, i, j) ==
    At(t, IF Rows(t) = 1 THEN 1 ELSE i, IF Cols(t) = 1 THEN 1 ELSE j)

BroadcastsWith(t, y) ==
    /\ Rows(t) = Rows(y) \/ Rows(t) = 1 \/ Rows(y) = 1
    /\ Cols(t) = Cols(y) \/ Cols(t) = 1 \/ Cols(y) = 1

\* np.multiply(t, np.log(y + eps))
LabelTimesLog(t, y, eps) ==
    Mat(Max(Rows(t), Rows(y)), Max(Cols(t), Cols(y)),
        LAMBDA i, j : FMul(BroadcastAt(t, i, j),
                           FLog(FAdd(BroadcastAt(y, i, j), eps))))

\* -(np.sum(np.multiply(t, np.log(y + eps))) / n)
NegMean(s, n) == Then(s, FNeg(FDiv(SumAll(s), FInt(n))))

CrossEntropy(t, y, eps, n) == Then(y, NegMean(LabelTimesLog(t, y, eps), n))

\* "if len(point[0]) != self.D or len(label[0]) != self.K: return 0"
Mismatched(net, point, label) == Cols(point) # net.D \/ Cols(label) # net.K

LNNCRE(net, point, label) ==
    IF Mismatched(net, point, label) THEN Ok(FZero)
    ELSE IF PredictErr(net, point) # "none" THEN Raised(PredictErr(net, point))
    ELSE Ok(CrossEntropy(label, predict(net, point), FDec(1, 0 - 10), Rows(point)))

QNNCRE(net, point, label) ==
    IF PredictErr(net, point) # "none" THEN Raised(PredictErr(net, point))
    ELSE IF ~BroadcastsWith(label, Zeros(Rows(point), net.K)) THEN Raised("ValueError")
    ELSE Ok(CrossEntropy(label, predict(net, point), FDec(1, 0 - 7), Rows(point)))

CRE(net, point, label) ==
    IF net.kind = "LNN" THEN LNNCRE(net, point, label) ELSE QNNCRE(net, point, label)

\* np.argmax of the first j elements of row i: the first index of the largest
RECURSIVE ArgMaxTo(_, _, _)
ArgMaxTo(x, i, j) ==
    IF j = 1 THEN 1
    ELSE IF FLt(At(x, i, ArgMaxTo(x, i, j - 1)), At(x, i, j)) THEN j
    ELSE ArgMaxTo(x, i, j - 1)

\* np.argmax(x, axis=1), classes counted from 0
ArgMax(x) == Then(x, Eval([i \in 1 .. Rows(x) |-> ArgMaxTo(x, i, Cols(x)) - 1]))

\* np.sum(y == t) of two class arrays of the same length
Agreeing(y, t) == Then(<<y, t>>, Cardinality({n \in 1 .. Len(y) : y[n] = t[n]}))

LNNaccuracy(net, point, label) ==
    IF Mismatched(net, point, label) THEN Ok(FZero)
    ELSE IF PredictErr(net, point) # "none" THEN Raised(PredictErr(net, point))
    ELSE Ok(FDiv(FInt(Agreeing(ArgMax(predict(net, point)), ArgMax(label))),
                 FInt(Rows(label))))

QNNaccuracy(net, point, label) ==
    IF PredictErr(net, point) # "none" THEN Raised(PredictErr(net, point))
    ELSE Ok(FDiv(FInt(Agreeing(ArgMax(predict(net, point)), ArgMax(label))),
                 FInt(Rows(point))))

accuracy(net, point, label) ==
    IF net.kind = "LNN" THEN LNNaccuracy(net, point, label)
    ELSE QNNaccuracy(net, point, label)

\* TP and FP of class k: the rows predicted k whose actual class is, is not, k
TP(y, t, k) == Cardinality({n \in 1 .. Len(y) : y[n] = k /\ t[n] = y[n]})
FP(y, t, k) == Cardinality({n \in 1 .. Len(y) : y[n] = k /\ t[n] # y[n]})

\* "precision += TP / (TP + FP)" for k = 0 .. K-1, then "precision / self.K";
\* TP and FP are Python ints, so a class no row is predicted as raises
\* ZeroDivisionError
ClassPrecisions(y, t, K) ==
    [k \in 1 .. K |-> FDiv(FInt(TP(y, t, k - 1)),
                           FInt(TP(y, t, k - 1) + FP(y, t, k - 1)))]

MeanPrecision(y, t, K) ==
    Then(<<y, t>>,
    IF \E k \in 0 .. K - 1 : TP(y, t, k) + FP(y, t, k) = 0
    THEN Raised("ZeroDivisionError")
    ELSE Ok(FDiv(FAdd(FInt(0), FSum(ClassPrecisions(y, t, K), K)), FInt(K))))

precision(net, point, label) ==
    IF Mismatched(net, point, label) THEN Ok(FZero)
    ELSE IF PredictErr(net, point) # "none" THEN Raised(PredictErr(net, point))
    ELSE MeanPrecision(ArgMax(predict(net, point)), ArgMax(label), net.K)

\* ------------------------------------------------------------------------
\* Gradient calculators: gradient_bp, gradient_ng
\* ------------------------------------------------------------------------

Map2(x, y, F(_, _)) ==
    Mat(Rows(x), Cols(x), LAMBDA i, j : F(At(x, i, j), At(y, i, j)))

\* the forward pass of gradient_bp: <<a[0], ..., a[L]>> from the list as of the
\* activations up to layer l
RECURSIVE ForwardAll(_, _, _)
ForwardAll(net, as, l) ==
    IF l = net.L THEN as
    ELSE Then(as,
         ForwardAll(net,
                    Append(as, Activate(net.activation_func[l],
                                        LayerZ(net, as[l + 1], l))),
                    l + 1))

\* "da = 0" before the backward loop: a scalar, not an array
NoDa == [sh |-> <<>>, d |-> <<>>]

DaAt(da, i, j) == IF da.sh = <<>> THEN FZero ELSE At(da, i, j)

\* dz = (a[l + 1] - label) / len(point)
DzSoftmaxLoss(a, label, n) ==
    Mat(Max(Rows(a), Rows(label)), Max(Cols(a), Cols(label)),
        LAMBDA i, j : FDiv(FSub(BroadcastAt(a, i, j), BroadcastAt(label, i, j)),
                           FInt(n)))

\* dz = da * (a[l + 1] != 0)
DzRelu(a, da) ==
    Mat(Rows(a), Cols(a),
        LAMBDA i, j : IF At(a, i, j)[1] # 0 THEN DaAt(da, i, j) ELSE FZero)

\* dz = da * (1.0 - a[l + 1]) * a[l + 1]
DzSigmoid(a, da) ==
    Mat(Rows(a), Cols(a),
        LAMBDA i, j : FMul(FMul(DaAt(da, i, j), FSub(FOne, At(a, i, j))),
                           At(a, i, j)))

\* LNN chooses dz by the activation function of the layer
LNNDz(net, as, label, da, l) ==
    IF net.activation_func[l] = "softmax"
    THEN DzSoftmaxLoss(as[l + 2], label, Rows(as[1]))
    ELSE IF net.activation_func[l] = "relu" THEN DzRelu(as[l + 2], da)
    ELSE DzSigmoid(as[l + 2], da)

\* QNN chooses dz by the position of the layer
QNNDz(net, as, label, da, l) ==
    IF l = net.L - 1 THEN DzSoftmaxLoss(as[l + 2], label, Rows(as[1]))
    ELSE DzSigmoid(as[l + 2], da)

Times(x, y) == Map2(x, y, FMul)
Plus(x, y) == Map2(x, y, FAdd)

RECURSIVE LNNBackward(_, _, _, _, _, _)
LNNBackStep(net, as, label, l, grad, dz) ==
    Then(dz,
    LNNBackward(net, as, label, Dot(dz, Transpose(net.para[<<"w", l>>])), l - 1,
                grad \o <<<<<<"w", l>>, Dot(Transpose(as[l + 1]), dz)>>,
                          <<<<"b", l>>, SumAxis0(dz)>>>>))

\* "for l in range(self.L-1, -1, -1): ..." of LNN.gradient_bp from layer l on
LNNBackward(net, as, label, da, l, grad) ==
    IF l < 0 THEN grad
    ELSE Then(<<da, grad>>,
              LNNBackStep(net, as, label, l, grad, LNNDz(net, as, label, da, l)))

\* da = dar + dag + dab
QNNDaSingleDab(net, a, dzr, dzg, dzb, l) ==
    Plus(Plus(Dot(dzr, Transpose(net.para[<<"wr", l>>])),
              Dot(dzg, Transpose(net.para[<<"wg", l>>]))),
         Times(Dot(dzb, Transpose(net.para[<<"wb", l>>])), a))

\* da = dar + dag + dab + dab
QNNDa(net, a, dzr, dzg, dzb, l) ==
    Plus(Plus(Plus(Dot(dzr, Transpose(net.para[<<"wr", l>>])),
                   Dot(dzg, Transpose(net.para[<<"wg", l>>]))),
              Times(Dot(dzb, Transpose(net.para[<<"wb", l>>])), a)),
         Times(Dot(dzb, Transpose(net.para[<<"wb", l>>])), a))

RECURSIVE QNNBackward(_, _, _, _, _, _)
QNNBackBranches(net, as, label, l, grad, dzr, dzg, dzb) ==
    Then(<<dzr, dzg>>,
    QNNBackward(net, as, label, QNNDa(net, as[l + 1], dzr, dzg, dzb, l), l - 1,
                grad \o <<<<<<"br", l>>, SumAxis0(dzr)>>,
                          <<<<"bg", l>>, SumAxis0(dzg)>>,
                          <<<<"bb", l>>, SumAxis0(dzb)>>,
                          <<<<"wr", l>>, Dot(Transpose(as[l + 1]), dzr)>>,
                          <<<<"wg", l>>, Dot(Transpose(as[l + 1]), dzg)>>,
                          <<<<"wb", l>>, Dot(Map(Transpose(as[l + 1]), FSquare), dzb)>>>>))

\* dzr = dz * zg[l], dzg = dz * zr[l], dzb = dz
QNNBackStep(net, as, label, l, grad, dz) ==
    Then(dz,
    QNNBackBranches(net, as, label, l, grad,
                    Times(dz, Affine(net, as[l + 1], "wg", "bg", l)),
                    Times(dz, Affine(net, as[l + 1], "wr", "br", l)), dz))

\* "for l in range(self.L-1, -1, -1): ..." of QNN.gradient_bp from layer l on
QNNBackward(net, as, label, da, l, grad) ==
    IF l < 0 THEN grad
    ELSE Then(<<da, grad>>,
              QNNBackStep(net, as, label, l, grad, QNNDz(net, as, label, da, l)))

Backward(net, as, label) ==
    Then(as,
         IF net.kind = "LNN" THEN LNNBackward(net, as, label, NoDa, net.L - 1, <<>>)
         ELSE QNNBackward(net, as, label, NoDa, net.L - 1, <<>>))

\* the exception gradient_bp raises: those of the forward pass, then the
\* subtraction of a label matrix that does not broadcast with the output
GradientErr(net, point, label) ==
    IF PredictErr(net, point) # "none" THEN PredictErr(net, point)
    ELSE IF ~BroadcastsWith(label, Zeros(Rows(point), net.K)) THEN "ValueError"
    ELSE "none"

\* the gradient as the list of <<key, array>> in the order of insertion
gradient_bp(net, point, label) ==
    IF GradientErr(net, point, label) # "none"
    THEN Raised(GradientErr(net, point, label))
    ELSE Ok(Backward(net, ForwardAll(net, <<point>>, 0), label))

\* the keys in the order initialize_network inserts them into self.para
RECURSIVE ParaKeyOrder(_, _)
ParaKeyOrder(net, l) ==
    IF l = net.L THEN <<>>
    ELSE (IF net.kind = "LNN" THEN <<<<"w", l>>, <<"b", l>>>>
          ELSE <<<<"wr", l>>, <<"br", l>>, <<"wg", l>>, <<"bg", l>>,
                 <<"wb", l>>, <<"bb", l>>>>)
         \o ParaKeyOrder(net, l + 1)

\* self.para[key][idx] = v
Perturbed(net, key, i, v) == [net EXCEPT !.para[key].d[i] = v]

\* h = 1e-4 of gradient_ng
StepH == FDec(1, 0 - 4)

\* grad[key][idx] = (fxh1 - fxh2) / (2 * h)
Difference(fxh1, fxh2) ==
    Then(<<fxh1, fxh2>>, FDiv(FSub(fxh1, fxh2), FMul(FInt(2), StepH)))

CentralDifference(net, point, label, key, i) ==
    Difference(CRE(Perturbed(net, key, i, FAdd(net.para[key].d[i], StepH)),
                   point, label).val,
               CRE(Perturbed(net, key, i, FSub(net.para[key].d[i], StepH)),
                   point, label).val)

NgArray(net, point, label, key) ==
    [sh |-> net.para[key].sh,
     d  |-> Eval([i \in 1 .. Size(net.para[key]) |->
                    CentralDifference(net, point, label, key, i)])]

\* the gradient of every key of self.para, in the order of self.para; every
\* element is put back to tmp_val, so the object is left as it was
gradient_ng(net, point, label) ==
    IF CRE(net, point, label).err # "none" THEN Raised(CRE(net, point, label).err)
    ELSE Ok([n \in 1 .. Len(ParaKeyOrder(net, 0)) |->
               <<ParaKeyOrder(net, 0)[n],
                 NgArray(net, point, label, ParaKeyOrder(net, 0)[n])>>])

\* load_NN(para, h, m, v)
load_NN(net, para, h, m, v) == [net EXCEPT !.para = para, !.h = h, !.m = m, !.v = v]

\* ------------------------------------------------------------------------
\* State
\* ------------------------------------------------------------------------

VARIABLES
    nn,              \* the network object (an LNN or a QNN), NoNet before construction
    optimizer_para,  \* the caller's optimizer options dict, shared by every call
    calls,           \* the optimizer calls made directly on nn, in order
    err,             \* the exception the last call raised, "none" if it returned
    out,             \* what the last query returned
    tr,              \* the running (or last) LNN.train call: its arguments and locals
    save             \* the directory "save" of the working directory

vars == <<nn, optimizer_para, calls, err, out, tr, save>>

NoTrain == [pc |-> "idle"]

\* out before any metric query
NoQuery == [metric |-> "none"]

\* no directory "save"
NoDir == [exists |-> FALSE]

\* ------------------------------------------------------------------------
\* Direct optimizer calls: net.SGD(grad, para), net.AdaGrad(grad, para), ...
\* ------------------------------------------------------------------------

\* Optimizer calls made in one behaviour.
MaxCalls == 2

Dict1(x) == [l \in {0} |-> x]

\* one draw of np.random.randn per weight array: +1, -1, +1, ...
RandnFixed(D, neuron_num, keys) ==
    [k \in {q \in keys : IsWeight(q)} |->
        [sh |-> KeyShape(D, neuron_num, k),
         d  |-> [i \in 1 .. KeyShape(D, neuron_num, k)[1] * KeyShape(D, neuron_num, k)[2]
                   |-> IF i % 2 = 1 THEN FOne ELSE FNeg(FOne)]]]

OptNets ==
    { NewLNN(1, Dict1(2), Dict1("softmax"), RandnFixed(1, Dict1(2), LNNKeys(1))),
      NewQNN(1, Dict1(1), Dict1("softmax"), RandnFixed(1, Dict1(1), QNNKeys(1))) }

\* gradient values the caller passes: 0.5, -2e-7 and 0
GradValues == {FDec(5, 0 - 1), FDec(0 - 2, 0 - 7), FZero}

Filled(sh, x) ==
    [sh |-> sh, d |-> [i \in 1 .. (IF Len(sh) = 2 THEN sh[1] * sh[2] ELSE sh[1]) |-> x]]

\* the keys in the order gradient_bp inserts them
BpKeyOrder(net) ==
    IF net.kind = "LNN" THEN <<<<"w", 0>>, <<"b", 0>>>>
    ELSE <<<<"br", 0>>, <<"bg", 0>>, <<"bb", 0>>, <<"wr", 0>>, <<"wg", 0>>, <<"wb", 0>>>>

\* the shape gradient_bp gives the gradient of key: a bias gradient is the
\* 1-D array np.sum(dz, axis=0)
BpShape(net, key) ==
    IF IsWeight(key) THEN net.para[key].sh ELSE <<net.para[key].sh[2]>>

FullGrad(net, x) ==
    [i \in 1 .. Len(BpKeyOrder(net)) |->
        <<BpKeyOrder(net)[i], Filled(BpShape(net, BpKeyOrder(net)[i]), x)>>]

\* the gradient sets a caller passes: none, one key, every key, or a key the
\* object holds followed by a key it does not hold
OptGrads(net) ==
    {<<>>}
    \cup {<<FullGrad(net, FDec(5, 0 - 1))[Len(BpKeyOrder(net))],
            <<<<"w", 7>>, Filled(<<1, 1>>, FOne)>>>>}
    \cup {<<FullGrad(net, x)[Len(BpKeyOrder(net))]>> : x \in GradValues \ {FZero}}
    \cup {FullGrad(net, x) : x \in GradValues}

InitOpt ==
    /\ nn \in OptNets
    /\ optimizer_para = DefaultOptimizerPara
    /\ calls = <<>>
    /\ err = "none"
    /\ out = NoQuery
    /\ tr = NoTrain
    /\ save = NoDir

\* the state after a call that left r
AfterCall(opt, grad, r) ==
    /\ nn' = r.net
    /\ optimizer_para' = r.para
    /\ err' = r.err
    /\ calls' = Append(calls, [opt |-> opt, grad |-> grad, decs |-> r.decs])
    /\ UNCHANGED <<out, tr, save>>

OptimizerCall(opt, grad) ==
    /\ Len(calls) < MaxCalls
    /\ AfterCall(opt, grad, CallOptimizer(opt, nn, grad, optimizer_para))

NextOpt == \E opt \in Optimizers : \E grad \in OptGrads(nn) : OptimizerCall(opt, grad)

SpecOpt == InitOpt /\ [][NextOpt]_vars

IsNewCall == Len(calls') = Len(calls) + 1
LastCall == calls[Len(calls)]

SameAt(a, b, k) ==
    a.para[k] = b.para[k] /\ a.h[k] = b.h[k] /\ a.m[k] = b.m[k] /\ a.v[k] = b.v[k]

\* C8: an optimizer step leaves every parameter and every accumulator whose key
\* is not in the gradient set as it was; SGD changes no accumulator, AdaGrad and
\* RMSprop change only h, Adam changes only m, v and the iteration counter.
C8_StepTouchesOnlyGradKeys ==
    [][IsNewCall =>
        LET c == calls'[Len(calls')]
        IN  /\ DOMAIN nn'.para = DOMAIN nn.para
            /\ \A k \in DOMAIN nn.para \ GradKeys(c.grad) : SameAt(nn', nn, k)
            /\ c.opt = "SGD" =>
                  nn'.h = nn.h /\ nn'.m = nn.m /\ nn'.v = nn.v
                  /\ optimizer_para' = optimizer_para
            /\ c.opt \in {"AdaGrad", "RMSprop"} =>
                  nn'.m = nn.m /\ nn'.v = nn.v /\ optimizer_para' = optimizer_para
            /\ c.opt = "Adam" =>
                  nn'.h = nn.h
                  /\ optimizer_para' = [optimizer_para EXCEPT !.iter = optimizer_para'.iter]
    ]_vars

\* an Adam step on one key of several has moved that key's m, v and parameter
\* and nothing of the others
C8_Witness ==
    /\ Len(calls) = 1
    /\ LastCall.opt = "Adam"
    /\ Len(LastCall.grad) = 1
    /\ Cardinality(DOMAIN nn.para) > 1
    /\ \E i \in 1 .. Size(nn.m[LastCall.grad[1][1]]) :
          ~FIsZero(nn.m[LastCall.grad[1][1]].d[i]) /\ ~FIsZero(nn.v[LastCall.grad[1][1]].d[i])

AdamCalls == Cardinality({i \in 1 .. Len(calls) : calls[i].opt = "Adam"})

\* C9: every Adam call adds exactly 1 to the iteration counter of the options,
\* whatever the number of keys in the gradient set (none included), so the
\* counter is its initial value plus the number of Adam calls; SGD, AdaGrad and
\* RMSprop leave it alone.
C9_AdamCountsCalls ==
    /\ [][IsNewCall =>
            optimizer_para'.iter = optimizer_para.iter
                + (IF calls'[Len(calls')].opt = "Adam" THEN 1 ELSE 0)]_vars
    /\ [](optimizer_para.iter = DefaultOptimizerPara.iter + AdamCalls)

\* two Adam calls, the first with an empty gradient set and the second with two
\* keys, have brought the counter to 2
C9_Witness ==
    /\ Len(calls) = 2
    /\ calls[1].opt = "Adam" /\ calls[1].grad = <<>>
    /\ calls[2].opt = "Adam" /\ Len(calls[2].grad) >= 2 /\ err = "none"
    /\ optimizer_para.iter = DefaultOptimizerPara.iter + 2

\* ------------------------------------------------------------------------
\* The same optimizer applied with the same gradient set at every step
\* ------------------------------------------------------------------------

\* Steps taken with the same gradient.
MaxSame == 4

\* the options of src/special.py, and a second setting with a larger learning
\* rate and faster decay of h and m
SameParas ==
    {DefaultOptimizerPara,
     [DefaultOptimizerPara EXCEPT !.lr = FDec(1, 0 - 1),
                                  !.decay_rate = FDec(5, 0 - 1),
                                  !.beta1 = FDec(5, 0 - 1)]}

\* the nonzero gradient values: 0.5, -2e-7 and 0.002
SameValues == {FDec(5, 0 - 1), FDec(0 - 2, 0 - 7), FDec(2, 0 - 3)}

InitSame ==
    /\ nn \in OptNets
    /\ optimizer_para \in SameParas
    /\ calls = <<>>
    /\ err = "none"
    /\ out = NoQuery
    /\ tr = NoTrain
    /\ save = NoDir

FirstStep ==
    /\ calls = <<>>
    /\ \E opt \in {"AdaGrad", "RMSprop", "Adam"} : \E x \in SameValues :
          AfterCall(opt, FullGrad(nn, x),
                    CallOptimizer(opt, nn, FullGrad(nn, x), optimizer_para))

SameStep ==
    /\ calls # <<>>
    /\ Len(calls) < MaxSame
    /\ AfterCall(calls[1].opt, calls[1].grad,
                 CallOptimizer(calls[1].opt, nn, calls[1].grad, optimizer_para))

NextSame == FirstStep \/ SameStep

SpecSame == InitSame /\ [][NextSame]_vars

\* the magnitude of the change step n applied to element i of its j-th key
StepSize(n, j, i) == FAbs(calls[n].decs[j][2][i])

StepsOf(opts, Shrinks(_, _)) ==
    \A n \in 1 .. Len(calls) - 1 :
        calls[n].opt \in opts =>
            \A j \in 1 .. Len(calls[n].decs) :
                \A i \in 1 .. Len(calls[n].decs[j][2]) :
                    Shrinks(StepSize(n + 1, j, i), StepSize(n, j, i))

Points(rows) == Mat(Len(rows), Len(rows[1]), LAMBDA i, j : FInt(rows[i][j]))

\* the one-hot label matrix of the classes cs among K classes
OneHot(cs, K) == Mat(Len(cs), K, LAMBDA i, j : IF cs[i] = j - 1 THEN FOne ELSE FZero)

\* randn draws 1, 0, -1, 1, ... for the elements of every weight
RandnSpread(D, neuron_num, keys) ==
    [k \in keys |->
        Mat(KeyShape(D, neuron_num, k)[1], KeyShape(D, neuron_num, k)[2],
            LAMBDA i, j : FInt(1 - ((i + j - 2) % 3)))]

MetricNets ==
    {NewLNN(1, Dict1(3), Dict1("softmax"), RandnSpread(1, Dict1(3), LNNKeys(1))),
     NewLNN(1, Dict1(2), Dict1("softmax"), RandnSpread(1, Dict1(2), LNNKeys(1))),
     NewLNN(2, Dict1(2), Dict1("softmax"), RandnSpread(2, Dict1(2), LNNKeys(1))),
     NewQNN(1, Dict1(2), Dict1("softmax"), RandnSpread(1, Dict1(2), QNNKeys(1)))}

\* sample and label matrices with the same number of rows
MetricData ==
    {[point |-> Points(p), label |-> OneHot(c[1], c[2])] :
        p \in {<<<<1>>, <<0 - 1>>>>, <<<<1>>, <<1>>>>, <<<<2>>, <<0 - 3>>>>,
               <<<<1, 0>>, <<0, 1>>>>},
        c \in {<<<<0, 1>>, 2>>, <<<<1, 0>>, 2>>, <<<<0, 0>>, 2>>,
               <<<<0, 2>>, 3>>, <<<<1, 1>>, 3>>}}
    \cup {[point |-> Points(<<<<1>>, <<1>>, <<1>>, <<0 - 1>>, <<0 - 1>>, <<0 - 1>>>>),
           label |-> OneHot(c, 3)] :
             c \in {<<0, 0, 1, 2, 2, 2>>, <<0, 0, 2, 2, 2, 0>>}}

Metrics == {"CRE", "accuracy", "precision"}

\* net.<metric>(point, label); QNN defines no precision
Query(net, metric, point, label) ==
    CASE metric = "CRE"       -> CRE(net, point, label)
      [] metric = "accuracy"  -> accuracy(net, point, label)
      [] metric = "precision" -> IF net.kind = "LNN" THEN precision(net, point, label)
                                 ELSE Raised("AttributeError")

InitMetric ==
    /\ nn \in MetricNets
    /\ optimizer_para = DefaultOptimizerPara
    /\ calls = <<>>
    /\ err = "none"
    /\ out = NoQuery
    /\ tr = NoTrain
    /\ save = NoDir

\* the state after a query that left r
AfterQuery(metric, data, r) ==
    /\ out' = [metric |-> metric, point |-> data.point, label |-> data.label,
               val |-> r.val]
    /\ err' = r.err
    /\ UNCHANGED <<nn, optimizer_para, calls, tr, save>>

MetricCall(metric, data) ==
    AfterQuery(metric, data, Query(nn, metric, data.point, data.label))

NextMetric == \E metric \in Metrics : \E data \in MetricData : MetricCall(metric, data)

SpecMetric == InitMetric /\ [][NextMetric]_vars

\* C4: a metric query whose sample matrix width differs from D or whose label
\* matrix width differs from K fails with a ShapeMismatchError; it never
\* returns a value.
C4_MismatchRaisesShapeMismatchError ==
    (out.metric # "none" /\ Mismatched(nn, out.point, out.label))
        => err = "ShapeMismatchError"

\* the precision of class k, 0 for a class no row is predicted as
ClassPrecisionOrZero(y, t, k) ==
    IF TP(y, t, k) + FP(y, t, k) = 0 THEN FZero
    ELSE FDiv(FInt(TP(y, t, k)), FInt(TP(y, t, k) + FP(y, t, k)))

MacroPrecision(y, t, K) ==
    FDiv(FSum([k \in 1 .. K |-> ClassPrecisionOrZero(y, t, k - 1)], K), FInt(K))

\* C6: LNN.precision returns a value for every prediction/label set: the mean
\* over the K classes of TP/(TP+FP), taking 0 for a class that is never
\* predicted, with no division-by-zero error.
C6_PrecisionTotal ==
    (/\ out.metric # "none"
     /\ out.metric = "precision"
     /\ nn.kind = "LNN"
     /\ ~Mismatched(nn, out.point, out.label))
        => /\ err = "none"
           /\ out.val = MacroPrecision(ArgMax(predict(nn, out.point)),
                                       ArgMax(out.label), nn.K)

\* ------------------------------------------------------------------------
\* Construction of a network
\* ------------------------------------------------------------------------

\* The most layers a constructed network has.
MaxLayers == 2

\* the dictionaries {0: x0, ..., n-1: x(n-1)} with values in vals
DictsOver(n, vals) == [0 .. n - 1 -> vals]

NeuronNums == UNION {DictsOver(L, {1, 2}) : L \in 1 .. MaxLayers}

ActivationFuncs ==
    UNION {DictsOver(n, {"relu", "sigmoid", "softmax"}) : n \in 0 .. MaxLayers + 1}

\* the keys initialize_network has stored when QNN's loop reaches a layer
\* whose activation_func entry is missing
QNNAllocated(neuron_num, activation_func) ==
    {k \in QNNKeys(DictLen(neuron_num)) :
        \A l \in 0 .. k[2] : l \in DOMAIN activation_func}

InitNew ==
    /\ nn = NoNet
    /\ optimizer_para = DefaultOptimizerPara
    /\ calls = <<>>
    /\ err = "none"
    /\ out = NoQuery
    /\ tr = NoTrain
    /\ save = NoDir

\* method = LNN(dimension, neuron_num, activation_func)
ConstructLNN(dimension, neuron_num, activation_func) ==
    /\ nn = NoNet /\ err = "none"
    /\ nn' = NewLNN(dimension, neuron_num, activation_func,
                    RandnSpread(dimension, neuron_num, LNNKeys(DictLen(neuron_num))))
    /\ out' = [metric |-> "construct", neuron_num |-> neuron_num,
               activation_func |-> activation_func,
               allocated |-> LNNKeys(DictLen(neuron_num))]
    /\ UNCHANGED <<optimizer_para, calls, err, tr, save>>

\* method = QNN(dimension, neuron_num, activation_func)
ConstructQNN(dimension, neuron_num, activation_func) ==
    /\ nn = NoNet /\ err = "none"
    /\ IF QNNRaises(neuron_num, activation_func)
       THEN nn' = NoNet /\ err' = "KeyError"
       ELSE /\ nn' = NewQNN(dimension, neuron_num, activation_func,
                            RandnSpread(dimension, neuron_num,
                                        QNNKeys(DictLen(neuron_num))))
            /\ err' = "none"
    /\ out' = [metric |-> "construct", neuron_num |-> neuron_num,
               activation_func |-> activation_func,
               allocated |-> QNNAllocated(neuron_num, activation_func)]
    /\ UNCHANGED <<optimizer_para, calls, tr, save>>

NextNew ==
    \E dimension \in {1, 2} : \E neuron_num \in NeuronNums :
        \E activation_func \in ActivationFuncs :
            \/ ConstructLNN(dimension, neuron_num, activation_func)
            \/ ConstructQNN(dimension, neuron_num, activation_func)

SpecNew == InitNew /\ [][NextNew]_vars

\* C5: constructing a network whose activation map has a different number of
\* entries than its layer-width map fails with a ConfigurationError; no
\* tensor is allocated and no network object results.
C5_MismatchRaisesConfigurationError ==
    (/\ out.metric = "construct"
     /\ DictLen(out.activation_func) # DictLen(out.neuron_num))
        => /\ err = "ConfigurationError"
           /\ nn = NoNet
           /\ out.allocated = {}

\* ------------------------------------------------------------------------
\* Gradient calls: net.load_NN(...), net.gradient_bp(point, label),
\* net.gradient_ng(point, label)
\* ------------------------------------------------------------------------

Dict2(x, y) == [l \in {0, 1} |-> IF l = 0 THEN x ELSE y]

\* one network of every kind for every activation configuration: a softmax
\* layer alone, or a relu or sigmoid layer of one neuron before it
GradNets ==
    {NewLNN(1, Dict1(2), Dict1("softmax"), RandnFixed(1, Dict1(2), LNNKeys(1))),
     NewQNN(1, Dict1(2), Dict1("softmax"), RandnFixed(1, Dict1(2), QNNKeys(1)))}
    \cup {NewLNN(1, Dict2(1, 2), Dict2(f, "softmax"),
                 RandnFixed(1, Dict2(1, 2), LNNKeys(2))) : f \in {"relu", "sigmoid"}}
    \cup {NewQNN(1, Dict2(1, 2), Dict2(f, "softmax"),
                 RandnFixed(1, Dict2(1, 2), QNNKeys(2))) : f \in {"relu", "sigmoid"}}

\* the parameters a caller loads: weights 0.5, -0.5, 0.5, ... and biases 0.1
GradPara(net) ==
    [k \in DOMAIN net.para |->
        Mat(net.para[k].sh[1], net.para[k].sh[2],
            LAMBDA i, j : IF ~IsWeight(k) THEN FDec(1, 0 - 1)
                          ELSE IF (i + j) % 2 = 0 THEN FDec(5, 0 - 1)
                          ELSE FDec(0 - 5, 0 - 1))]

\* batches of one-dimensional samples with one-hot labels over two classes
GradData ==
    {[point |-> Points(<<<<1>>>>), label |-> OneHot(<<1>>, 2)],
     [point |-> Points(<<<<1>>, <<0 - 1>>>>), label |-> OneHot(<<0, 1>>, 2)]}

NoGrad == <<>>

InitGrad ==
    /\ nn \in GradNets
    /\ optimizer_para = DefaultOptimizerPara
    /\ calls = <<>>
    /\ err = "none"
    /\ out = NoQuery
    /\ tr = NoTrain
    /\ save = NoDir

\* nn.load_NN(para, h, m, v)
LoadNN ==
    /\ nn.para # GradPara(nn)
    /\ nn' = load_NN(nn, GradPara(nn), nn.h, nn.m, nn.v)
    /\ UNCHANGED <<optimizer_para, calls, err, out, tr, save>>

\* whether out holds a gradient of the parameters para for the batch data
SameTriple(para, data) ==
    /\ out.metric \in {"gradient_bp", "gradient_ng"}
    /\ out.para = para /\ out.point = data.point /\ out.label = data.label

\* the state after gradient_bp left r
AfterBp(data, r) ==
    /\ out' = [metric |-> "gradient_bp", para |-> nn.para,
               point |-> data.point, label |-> data.label,
               bp |-> r.val,
               ng |-> IF SameTriple(nn.para, data) THEN out.ng ELSE NoGrad]
    /\ err' = r.err
    /\ UNCHANGED <<nn, optimizer_para, calls, tr, save>>

\* grad = nn.gradient_bp(point, label)
GradientBp(data) == AfterBp(data, gradient_bp(nn, data.point, data.label))

\* the object gradient_ng leaves: an exception of the first CRE call leaves the
\* first element of the first key at tmp_val + h
NgLeaves(net, r) ==
    IF r.err = "none" THEN net
    ELSE Perturbed(net, ParaKeyOrder(net, 0)[1], 1,
                   FAdd(net.para[ParaKeyOrder(net, 0)[1]].d[1], StepH))

\* the state after gradient_ng left r
AfterNg(data, r) ==
    /\ out' = [metric |-> "gradient_ng", para |-> nn.para,
               point |-> data.point, label |-> data.label,
               bp |-> IF SameTriple(nn.para, data) THEN out.bp ELSE NoGrad,
               ng |-> r.val]
    /\ err' = r.err
    /\ nn' = NgLeaves(nn, r)
    /\ UNCHANGED <<optimizer_para, calls, tr, save>>

\* grad = nn.gradient_ng(point, label)
GradientNg(data) == AfterNg(data, gradient_ng(nn, data.point, data.label))

NextGrad ==
    \/ LoadNN
    \/ \E data \in GradData : GradientBp(data)
    \/ \E data \in GradData : GradientNg(data)

SpecGrad == InitGrad /\ [][NextGrad]_vars

\* the array of key in the gradient list g
GradOf(g, key) == g[CHOOSE n \in 1 .. Len(g) : g[n][1] = key][2]

\* the relative tolerance 1e-5
Tolerance == FDec(1, 0 - 5)

\* What the difference quotient of gradient_ng can resolve here: the two
\* losses carry Digits significant digits and their difference is divided by
\* 2e-4, so digits below 0.1 of a quotient of losses near 1 are rounding.
NgResolution == FDec(1, 0 - 1)

Agree(a, b) ==
    FLe(FAbs(FSub(a, b)),
        FAdd(FMul(Tolerance, FMax(FAbs(a), FAbs(b))), NgResolution))

BothGradients ==
    /\ out.metric \in {"gradient_bp", "gradient_ng"}
    /\ err = "none"
    /\ out.bp # NoGrad /\ out.ng # NoGrad

\* C7: when gradient_bp and gradient_ng have both been computed for the same
\* parameters, samples and labels, every element of the analytic gradient
\* agrees with the element of the numerical gradient within the relative
\* tolerance 1e-5 (up to what the difference quotient resolves), for LNN and
\* QNN and every activation configuration.
C7_BpAgreesWithNg ==
    BothGradients =>
        \A n \in 1 .. Len(out.bp) : \A i \in 1 .. Len(out.bp[n][2].d) :
            Agree(out.bp[n][2].d[i], GradOf(out.ng, out.bp[n][1]).d[i])

\* the two gradients agree for every network other than a QNN with a relu
\* layer
BpAgreesWithNgElsewhere ==
    (nn.kind = "QNN" /\ \E l \in DOMAIN nn.activation_func :
                            nn.activation_func[l] = "relu")
        \/ C7_BpAgreesWithNg

\* ------------------------------------------------------------------------
\* LNN.train(train_point, train_label, optimizer_para, valid_point,
\*           valid_label, optimizer, epoch, stop_point)
\* ------------------------------------------------------------------------

\* train calls made in one behaviour
MaxTrains == 2

\* the largest epoch argument
MaxEpoch == 3

\* Python's None
None == [none |-> TRUE]

\* the default of the optimizer argument: the function RMSprop of the class
\* body, which is not bound to the object
UnboundRMSprop == "RMSprop (unbound)"

\* seconds time.time() - begin can give, in clock ticks
Elapsed == {0, 1}

\* the network trained: two classes over one-dimensional samples
TrainNets ==
    {NewLNN(1, Dict1(2), Dict1("softmax"), RandnFixed(1, Dict1(2), LNNKeys(1)))}

\* training sets: the samples 1 and -1 labelled 0 and 1, or both labelled 0
TrainSets ==
    {[point |-> Points(<<<<1>>, <<0 - 1>>>>), label |-> OneHot(c, 2)] :
        c \in {<<0, 1>>, <<0, 0>>}}

\* validation sets: none, or the samples 1 and -1 labelled 1 and 0, or 0 and 1
ValidSets ==
    {[point |-> None, label |-> None]}
    \cup {[point |-> Points(<<<<1>>, <<0 - 1>>>>), label |-> OneHot(c, 2)] :
             c \in {<<1, 0>>, <<0, 1>>}}

TrainArgs ==
    {[train_point |-> t.point, train_label |-> t.label,
      valid_point |-> v.point, valid_label |-> v.label,
      optimizer |-> o, epoch |-> MaxEpoch, stop_point |-> p] :
        t \in TrainSets, v \in ValidSets, o \in {"SGD", "Adam", UnboundRMSprop},
        p \in 0 .. 2}

\* tr before the first call: the arguments the caller will pass
Idle(args) == [pc |-> "idle", n |-> 0, args |-> args]

\* the locals at "for i in range(epoch)": time_track = 0, stop_track = 0,
\* loss_max = 1000.  gradients and steps count the gradient_bp and optimizer
\* calls that returned, improved is the last i whose validation loss was
\* below loss_max (-1 before any)
Started(args, n) ==
    [pc |-> "loop", n |-> n, args |-> args, i |-> 0,
     time_track |-> 0, stop_track |-> 0, loss_max |-> FInt(1000),
     gradients |-> 0, steps |-> 0, improved |-> 0 - 1]

\* the object, the options dict and the locals at one point of the loop body
Frame(net, para, t) == [net |-> net, para |-> para, tr |-> t, err |-> "none"]

Fail(s, e) == [s EXCEPT !.err = e]

\* the rest F of the loop body, skipped once an exception is raised
Stage(s, F(_)) == IF s.err # "none" THEN s ELSE F(s)

\* self.<name>.append(r)
Recorded(s, name, r) ==
    IF r.err # "none" THEN Fail(s, r.err)
    ELSE [s EXCEPT !.net.rec[name] = Append(@, r.val)]

\* the call optimizer(grad, optimizer_para) that left r
Stepped(s, r) ==
    [s EXCEPT !.net = r.net, !.para = r.para, !.err = r.err,
              !.tr.steps = IF r.err = "none" THEN @ + 1 ELSE @]

\* optimizer(g, optimizer_para): the unbound RMSprop takes g for self and
\* lacks an argument
Optimized(s, g) ==
    IF g.err # "none" THEN Fail(s, g.err)
    ELSE IF s.tr.args.optimizer = UnboundRMSprop
    THEN Fail([s EXCEPT !.tr.gradients = @ + 1], "TypeError")
    ELSE Stepped([s EXCEPT !.tr.gradients = @ + 1],
                 CallOptimizer(s.tr.args.optimizer, s.net, g.val, s.para))

\* optimizer(self.gradient_bp(train_point, train_label), optimizer_para)
MainPart(s) ==
    Optimized(s, gradient_bp(s.net, s.tr.args.train_point, s.tr.args.train_label))

\* time_track += time.time() - begin; self.train_time.append(time_track);
\* self.iteration.append(i)
Timed(s, dt) ==
    [s EXCEPT !.tr.time_track = @ + dt,
              !.net.rec.train_time = Append(@, s.tr.time_track + dt),
              !.net.rec.iteration = Append(@, s.tr.i)]

\* the appends of the loss, the accuracy and the precision of one set, l, a
\* and p being what the three metrics give for the parameters the optimizer
\* step left: an exception leaves the lists as appended so far
RecordedSet(s, prefix, l, a, p) ==
    IF l.err # "none" THEN Fail(s, l.err)
    ELSE IF a.err # "none" THEN Fail(Recorded(s, prefix \o "_loss", l), a.err)
    ELSE Recorded(Recorded(Recorded(s, prefix \o "_loss", l),
                           prefix \o "_accuracy", a),
                  prefix \o "_precision", p)

\* if <label> is not None: the loss, accuracy and precision lists of prefix
RecordSet(s, prefix, point, label) ==
    IF s.err # "none" \/ label = None THEN s
    ELSE RecordedSet(s, prefix, Query(s.net, "CRE", point, label),
                     Query(s.net, "accuracy", point, label),
                     Query(s.net, "precision", point, label))

Last(q) == q[Len(q)]

\* early stopping that takes an equal loss for an improvement
EarlyStoppingOnEqual(s) ==
    IF s.tr.args.valid_label = None THEN s
    ELSE IF FLe(Last(s.net.rec.valid_loss), s.tr.loss_max)
    THEN [s EXCEPT !.tr.stop_track = 0,
                   !.tr.loss_max = Last(s.net.rec.valid_loss),
                   !.tr.improved = s.tr.i]
    ELSE [s EXCEPT !.tr.stop_track = @ + 1]

\* """ Early Stopping """
EarlyStopping(s) ==
    IF s.tr.args.valid_label = None THEN s
    ELSE IF FLt(Last(s.net.rec.valid_loss), s.tr.loss_max)
    THEN [s EXCEPT !.tr.stop_track = 0,
                   !.tr.loss_max = Last(s.net.rec.valid_loss),
                   !.tr.improved = s.tr.i]
    ELSE [s EXCEPT !.tr.stop_track = @ + 1]

\* the next i of range(epoch)
Advanced(s) == [s EXCEPT !.tr.i = @ + 1]

Recording(s) ==
    RecordSet(RecordSet(s, "train", s.tr.args.train_point, s.tr.args.train_label),
              "valid", s.tr.args.valid_point, s.tr.args.valid_label)

\* one pass of the loop body
EpochBody(s, dt) ==
    Stage(Stage(Stage(Stage(MainPart(s),
                            LAMBDA q : Timed(q, dt)),
                      Recording),
                EarlyStopping),
          Advanced)

InitTrain ==
    /\ nn \in TrainNets
    /\ optimizer_para = DefaultOptimizerPara
    /\ calls = <<>>
    /\ err = "none"
    /\ out = NoQuery
    /\ tr \in {Idle(args) : args \in TrainArgs}
    /\ save = NoDir

\* nn.train(...) is entered
TrainCall ==
    /\ tr.pc \in {"idle", "returned", "raised"}
    /\ tr.n < MaxTrains
    /\ tr' = Started(tr.args, tr.n + 1)
    /\ err' = "none"
    /\ UNCHANGED <<nn, optimizer_para, calls, out, save>>

\* the state after a pass of the loop body that left s
AfterEpoch(s) ==
    /\ nn' = s.net
    /\ optimizer_para' = s.para
    /\ err' = s.err
    /\ tr' = [s.tr EXCEPT !.pc = IF s.err = "none" THEN "loop" ELSE "raised"]
    /\ UNCHANGED <<calls, out, save>>

LoopEnds == tr.i >= tr.args.epoch \/ tr.args.stop_point <= tr.stop_track

\* one iteration of "for i in range(epoch)" that does not break
Epoch ==
    /\ tr.pc = "loop"
    /\ ~LoopEnds
    /\ \E dt \in Elapsed : AfterEpoch(EpochBody(Frame(nn, optimizer_para, tr), dt))

\* range(epoch) is exhausted or "if stop_point <= stop_track: break"
TrainReturn ==
    /\ tr.pc = "loop"
    /\ LoopEnds
    /\ tr' = [tr EXCEPT !.pc = "returned"]
    /\ UNCHANGED <<nn, optimizer_para, calls, err, out, save>>

NextTrain == TrainCall \/ Epoch \/ TrainReturn

SpecTrain == InitTrain /\ [][NextTrain]_vars

TrainLists ==
    {"iteration", "train_time", "train_loss", "train_accuracy", "train_precision"}

ValidLists == {"valid_loss", "valid_accuracy", "valid_precision"}

IsPrefix(p, q) == Len(p) <= Len(q) /\ SubSeq(q, 1, Len(p)) = p

\* a train call has ended: it returned or it raised
Ended == tr.pc \in {"returned", "raised"}

\* a train call with a validation set and stop_point >= 1 in which the
\* validation loss has improved on loss_max
StalledSince ==
    /\ tr.pc # "idle"
    /\ tr.args.valid_label # None
    /\ tr.args.stop_point >= 1
    /\ tr.improved >= 0

\* C1: in a train call with a validation set and stop_point >= 1, after the
\* last epoch whose validation loss strictly improved on the best value the
\* stall counter counts the epochs executed since, the best value stays the
\* loss of that epoch, and unless the epoch budget runs out first the call
\* ends by leaving the loop after exactly stop_point further epochs, with
\* one gradient and one optimizer step per executed epoch and none after.
C1_StopsAfterStopPointStalledEpochs ==
    StalledSince =>
        /\ tr.stop_track = tr.i - 1 - tr.improved
        /\ tr.stop_track <= tr.args.stop_point
        /\ tr.loss_max = nn.rec.valid_loss[Len(nn.rec.valid_loss) - tr.stop_track]
        /\ (Ended /\ tr.i < tr.args.epoch) =>
               /\ tr.pc = "returned"
               /\ tr.i = tr.improved + 1 + tr.args.stop_point
               /\ tr.gradients = tr.i /\ tr.steps = tr.i

\* C2: a train call executes at most epoch epochs; without a validation set
\* the stall counter stays 0 and the call ends only after exactly epoch
\* epochs, whatever stop_point is; a call that ends before epoch epochs has
\* a validation set and a stall counter that reached stop_point.
C2_AtMostEpochAndAllWithoutValidation ==
    tr.pc # "idle" =>
        /\ tr.i <= tr.args.epoch /\ tr.gradients <= tr.args.epoch
        /\ tr.args.valid_label = None => tr.stop_track = 0
        /\ (Ended /\ tr.args.valid_label = None) =>
               tr.pc = "returned" /\ tr.i = tr.args.epoch
        /\ (Ended /\ tr.i < tr.args.epoch) =>
               /\ tr.pc = "returned"
               /\ tr.args.valid_label # None
               /\ tr.stop_track >= tr.args.stop_point

\* a step that executes an epoch of the running train call
EpochStep == tr.pc = "loop" /\ tr'.pc \in {"loop", "raised"} /\ tr' # tr

\* the last entry of the list name is what metric gives for the parameters
\* the step leaves
RecordsCurrent(name, metric, point, label) ==
    Last(nn'.rec[name]) = Query(nn', metric, point, label).val

OneEntryEach(lists) == \A name \in lists : Len(nn'.rec[name]) = Len(nn.rec[name]) + 1

EpochRecords ==
    /\ tr'.gradients = tr.gradients + 1
    /\ tr'.steps = tr.steps + 1
    /\ OneEntryEach(TrainLists)
    /\ RecordsCurrent("train_loss", "CRE", tr.args.train_point, tr.args.train_label)
    /\ RecordsCurrent("train_accuracy", "accuracy",
                      tr.args.train_point, tr.args.train_label)
    /\ RecordsCurrent("train_precision", "precision",
                      tr.args.train_point, tr.args.train_label)
    /\ IF tr.args.valid_label = None
       THEN \A name \in ValidLists : nn'.rec[name] = nn.rec[name]
       ELSE /\ OneEntryEach(ValidLists)
            /\ RecordsCurrent("valid_loss", "CRE",
                              tr.args.valid_point, tr.args.valid_label)

AppendOnly == \A name \in DOMAIN nn.rec : IsPrefix(nn.rec[name], nn'.rec[name])

\* C3: over any sequence of train calls no entry of a record list is changed
\* or removed, and every executed epoch computes one gradient, takes one
\* optimizer step and appends one entry to each of iteration, train_time,
\* train_loss, train_accuracy and train_precision (and to the three
\* validation lists when validation labels are given), the entries being the
\* metrics of the parameters after the step.
C3_OneStepAndOneEntryPerEpoch ==
    [][AppendOnly /\ (EpochStep => EpochRecords)]_vars

\* ------------------------------------------------------------------------
\* QNN.save_QNN(), QNN(dimension, neuron_num, activation_func, load_QNN=True)
\* ------------------------------------------------------------------------

\* np.savetxt writes every element with fmt '%.18e': one digit, a point and
\* 18 digits
SavedDigits == 19

\* the text of x: the leading digits of the mantissa, the zeros that fill the
\* 19 places, and the exponent of the first digit
Format18e(x) ==
    [digits |-> Quot(x[1], Pow10(Digits - SavedDigits)),
     zeros  |-> Max(0, SavedDigits - Digits),
     exp    |-> IF x[1] = 0 THEN 0 ELSE x[2] + Digits - 1]

\* float(text)
ParseFloat(f) ==
    Norm(f.digits, f.exp - (Min(Digits, SavedDigits) - 1))

\* the lines np.savetxt(fname, t, delimiter=",") writes: a row of a 2-D array
\* per line, an element of a 1-D array per line
SavedLines(t) ==
    IF Len(t.sh) = 2
    THEN [i \in 1 .. t.sh[1] |->
            [j \in 1 .. t.sh[2] |-> Format18e(t.d[(i - 1) * t.sh[2] + j])]]
    ELSE [i \in 1 .. t.sh[1] |-> <<Format18e(t.d[i])>>]

\* np.savetxt raises ValueError for an array that is not 1-D or 2-D
SavetxtErr(t) == IF Len(t.sh) \in {1, 2} THEN "none" ELSE "ValueError"

\* np.loadtxt(fname, delimiter=","): the rows read, with every axis of
\* length 1 removed
LoadedShape(lines) ==
    IF Len(lines) = 1 /\ Len(lines[1]) = 1 THEN <<>>
    ELSE IF Len(lines) = 1 THEN <<Len(lines[1])>>
    ELSE IF Len(lines[1]) = 1 THEN <<Len(lines)>>
    ELSE <<Len(lines), Len(lines[1])>>

loadtxt(lines) ==
    [sh |-> LoadedShape(lines),
     d  |-> [n \in 1 .. Len(lines) * Len(lines[1]) |->
               ParseFloat(lines[((n - 1) \div Len(lines[1])) + 1]
                               [((n - 1) % Len(lines[1])) + 1])]]

\* the files save_QNN writes, in order: <<dict, key>> for the keys of para,
\* then of h, of m and of v
SaveOrder(net) ==
    [n \in 1 .. 4 * Len(ParaKeyOrder(net, 0)) |->
        <<<<"para", "h", "m", "v">>[((n - 1) \div Len(ParaKeyOrder(net, 0))) + 1],
          ParaKeyOrder(net, 0)[((n - 1) % Len(ParaKeyOrder(net, 0))) + 1]>>]

\* the directory after mkdir
MadeDir(dir) == IF dir.exists THEN dir ELSE [exists |-> TRUE, files |-> <<>>]

WithFile(dir, name, lines) ==
    [dir EXCEPT !.files = [f \in DOMAIN dir.files \cup {name} |->
                             IF f = name THEN lines ELSE dir.files[f]]]

\* the savetxt calls of save_QNN from the n-th on
RECURSIVE SaveFrom(_, _, _)
SaveFrom(net, dir, n) ==
    IF n > Len(SaveOrder(net)) THEN [dir |-> dir, err |-> "none"]
    ELSE IF SavetxtErr(net[SaveOrder(net)[n][1]][SaveOrder(net)[n][2]]) # "none"
    THEN [dir |-> dir,
          err |-> SavetxtErr(net[SaveOrder(net)[n][1]][SaveOrder(net)[n][2]])]
    ELSE SaveFrom(net,
                  WithFile(dir, SaveOrder(net)[n],
                           SavedLines(net[SaveOrder(net)[n][1]][SaveOrder(net)[n][2]])),
                  n + 1)

save_QNN(net, dir) == SaveFrom(net, MadeDir(dir), 1)

\* the keys in the order load_QNN reads them
RECURSIVE LoadKeyOrder(_, _)
LoadKeyOrder(net, l) ==
    IF l = net.L THEN <<>>
    ELSE <<<<"wr", l>>, <<"wg", l>>, <<"wb", l>>,
           <<"br", l>>, <<"bg", l>>, <<"bb", l>>>> \o LoadKeyOrder(net, l + 1)

\* the np.loadtxt calls of load_QNN from the n-th on: para, h, m and v of a
\* key, then the next key
LoadOrder(net) ==
    [n \in 1 .. 4 * Len(LoadKeyOrder(net, 0)) |->
        <<<<"para", "h", "m", "v">>[((n - 1) % 4) + 1],
          LoadKeyOrder(net, 0)[((n - 1) \div 4) + 1]>>]

Installed(net, name, t) == [net EXCEPT ![name[1]][name[2]] = t]

RECURSIVE LoadFrom(_, _, _)
LoadFrom(net, dir, n) ==
    IF n > Len(LoadOrder(net)) THEN [net |-> net, err |-> "none"]
    ELSE IF LoadOrder(net)[n] \notin DOMAIN dir.files
    THEN [net |-> net, err |-> "OSError"]
    ELSE LoadFrom(Installed(net, LoadOrder(net)[n],
                            loadtxt(dir.files[LoadOrder(net)[n]])),
                  dir, n + 1)

\* "if not os.path.exists('save'): return"
load_QNN(net, dir) ==
    IF ~dir.exists THEN [net |-> net, err |-> "none"] ELSE LoadFrom(net, dir, 1)

\* networks of one layer, with one-row, one-column and one-element weights
SaveNets ==
    {NewQNN(D, Dict1(K), Dict1("softmax"), RandnFixed(D, Dict1(K), QNNKeys(1))) :
        D \in {1, 2}, K \in {1, 2}}

InitSave ==
    /\ nn \in SaveNets
    /\ optimizer_para = DefaultOptimizerPara
    /\ calls = <<>>
    /\ err = "none"
    /\ out = NoQuery
    /\ tr = NoTrain
    /\ save = NoDir

\* the four dicts of the object
Tensors(net) == [para |-> net.para, h |-> net.h, m |-> net.m, v |-> net.v]

\* the state after a save_QNN that left r; out keeps what the object held
AfterSave(r) ==
    /\ save' = r.dir
    /\ err' = r.err
    /\ out' = [metric |-> "save_QNN", held |-> Tensors(nn),
               returned |-> r.err = "none"]
    /\ UNCHANGED <<nn, optimizer_para, calls, tr>>

\* nn.save_QNN()
SaveQNN == AfterSave(save_QNN(nn, save))

\* the state after a construction with load_QNN=True that left r
AfterLoad(r) ==
    /\ nn' = r.net
    /\ err' = r.err
    /\ out' = [metric |-> "load_QNN", steps |-> Len(calls),
               held |-> IF out.metric = "none" THEN Tensors(nn) ELSE out.held,
               returned |-> out.metric # "none" /\ out.returned]
    /\ UNCHANGED <<optimizer_para, calls, tr, save>>

\* nn = QNN(dimension, neuron_num, activation_func, load_QNN=True) with the
\* topology of the object saved
LoadQNN ==
    AfterLoad(load_QNN(NewQNN(nn.D, nn.neuron_num, nn.activation_func,
                              RandnSpread(nn.D, nn.neuron_num, QNNKeys(nn.L))),
                       save))

\* a gradient set with the shapes gradient_bp gives for the topology of net:
\* node_from x node_to for a weight, node_to for a bias
TopologyGrad(net, x) ==
    [i \in 1 .. Len(BpKeyOrder(net)) |->
        <<BpKeyOrder(net)[i],
          Filled(IF IsWeight(BpKeyOrder(net)[i])
                 THEN KeyShape(net.D, net.neuron_num, BpKeyOrder(net)[i])
                 ELSE <<net.neuron_num[BpKeyOrder(net)[i][2]]>>, x)>>]

NextSave ==
    \/ \E opt \in Optimizers : OptimizerCall(opt, TopologyGrad(nn, FDec(5, 0 - 1)))
    \/ SaveQNN
    \/ LoadQNN

SpecSave == InitSave /\ [][NextSave]_vars

\* the object has just been built with load_QNN=True from the files of a
\* save_QNN that returned
RestoredAfterSave ==
    /\ out.metric = "load_QNN" /\ out.steps = Len(calls) /\ out.returned
    /\ save.exists /\ err = "none"
    /\ \A name \in DOMAIN save.files :
           save.files[name] = SavedLines(out.held[name[1]][name[2]])

\* C11: after save_QNN, a network built with the same topology and
\* load_QNN=True holds for every key of para, h, m and v a tensor of the
\* shape and with the elements of the one saved.
C11_RestoreIsIdentity ==
    RestoredAfterSave =>
        \A dict \in {"para", "h", "m", "v"} : \A key \in DOMAIN nn[dict] :
            /\ nn[dict][key].sh = out.held[dict][key].sh
            /\ \A i \in 1 .. Len(out.held[dict][key].d) :
                   nn[dict][key].d[i] = out.held[dict][key].d[i]

\* the elements alone are restored
RestoreKeepsElements ==
    RestoredAfterSave =>
        \A dict \in {"para", "h", "m", "v"} : \A key \in DOMAIN nn[dict] :
            \A i \in 1 .. Len(out.held[dict][key].d) :
                nn[dict][key].d[i] = out.held[dict][key].d[i]

\* the object is as its constructor returned it: no optimizer step has been
\* applied since
Constructed ==
    /\ err = "none"
    /\ Len(calls) = 0 \/ (out.metric = "load_QNN" /\ out.steps = Len(calls))

\* h, m and v hold the keys of para, each tensor with the shape of its parameter
SameKeysAndShapes(net) ==
    \A dict \in {"h", "m", "v"} :
        /\ DOMAIN net[dict] = DOMAIN net.para
        /\ \A key \in DOMAIN net.para : net[dict][key].sh = net.para[key].sh

ZeroTensor(t) == \A i \in 1 .. Len(t.d) : FIsZero(t.d[i])

\* what initialize_network allocates: zero accumulators and biases, and
\* weights of node_from x node_to elements
AsInitialized(net) ==
    \A key \in DOMAIN net.para :
        /\ \A dict \in {"h", "m", "v"} : ZeroTensor(net[dict][key])
        /\ IF IsWeight(key)
           THEN net.para[key].sh = KeyShape(net.D, net.neuron_num, key)
           ELSE ZeroTensor(net.para[key])

\* C12: whatever constructions and optimizer steps have happened, h, m and v
\* have the key set of para and every accumulator tensor has the shape of the
\* parameter of its key; an object as its constructor returned it has all-zero
\* accumulators and biases and weights of shape (width of the layer before,
\* or D) x (width of the layer).
C12_AccumulatorsShadowParameters ==
    /\ SameKeysAndShapes(nn)
    /\ Constructed => AsInitialized(nn)

\* the accumulators keep the keys and the shapes of the parameters through
\* every step, save and load
AccumulatorsFollowParameters == SameKeysAndShapes(nn)

\* ------------------------------------------------------------------------
\* The stall counter and the best loss of LNN.train
\* ------------------------------------------------------------------------

\* the weight of the label rows that are not one-hot
LabelWeight == 50

\* validation sets: the samples 1 and -1 labelled 1 and 0, or 0 and 1, or
\* samples of width 2, for which CRE gives 0 at every epoch, or label rows
\* <<0, 50>> and <<50, 0>> (train and CRE take any label matrix of width K)
StallValidSets ==
    {[point |-> Points(<<<<1>>, <<0 - 1>>>>), label |-> OneHot(c, 2)] :
        c \in {<<1, 0>>, <<0, 1>>}}
    \cup {[point |-> Points(<<<<1, 1>>, <<0 - 1, 1>>>>), label |-> OneHot(<<0, 1>>, 2)]}
    \cup {[point |-> Points(<<<<1>>, <<0 - 1>>>>),
           label |-> Points(<<<<0, LabelWeight>>, <<LabelWeight, 0>>>>)]}

StallArgs ==
    {[train_point |-> t.point, train_label |-> t.label,
      valid_point |-> v.point, valid_label |-> v.label,
      optimizer |-> o, epoch |-> MaxEpoch, stop_point |-> p] :
        t \in TrainSets, v \in StallValidSets, o \in {"SGD", "Adam"}, p \in {2, 3}}

\* parameters that saturate the softmax: weights 12 and -12, biases 0, which
\* give a sample of the other class the probability exp(-24)
SaturatedPara(net) ==
    [k \in DOMAIN net.para |->
        Mat(net.para[k].sh[1], net.para[k].sh[2],
            LAMBDA i, j : IF ~IsWeight(k) THEN FZero
                          ELSE IF (i + j) % 2 = 0 THEN FInt(12) ELSE FInt(0 - 12))]

\* the network as constructed, or with saturated parameters installed by
\* load_NN
StallNets ==
    TrainNets \cup {load_NN(net, SaturatedPara(net), net.h, net.m, net.v) :
                      net \in TrainNets}

InitStall ==
    /\ nn \in StallNets
    /\ optimizer_para = DefaultOptimizerPara
    /\ calls = <<>>
    /\ err = "none"
    /\ out = NoQuery
    /\ tr \in {Idle(args) : args \in StallArgs}
    /\ save = NoDir

\* one iteration of the loop that does not break, time.time() - begin being
\* one clock tick
TickEpoch ==
    /\ tr.pc = "loop"
    /\ ~LoopEnds
    /\ AfterEpoch(EpochBody(Frame(nn, optimizer_para, tr), 1))

NextStall == TrainCall \/ TickEpoch \/ TrainReturn

SpecStall == InitStall /\ [][NextStall]_vars

\* a train call with a validation set is between two epochs or has returned
BetweenEpochs == tr.pc \in {"loop", "returned"} /\ tr.args.valid_label # None

\* the validation losses this call has recorded, one per executed epoch
CallLosses ==
    SubSeq(nn.rec.valid_loss, Len(nn.rec.valid_loss) - tr.i + 1, Len(nn.rec.valid_loss))

\* the best value after the first k losses of q, from loss_max = 1000
RECURSIVE BestSeen(_, _)
BestSeen(q, k) ==
    IF k = 0 THEN FInt(1000)
    ELSE IF FLt(q[k], BestSeen(q, k - 1)) THEN q[k] ELSE BestSeen(q, k - 1)

\* the number of consecutive losses up to the k-th that were not below the
\* best value before them
RECURSIVE StalledEpochs(_, _)
StalledEpochs(q, k) ==
    IF k = 0 \/ FLt(q[k], BestSeen(q, k - 1)) THEN 0
    ELSE StalledEpochs(q, k - 1) + 1

RECURSIVE MinLoss(_, _)
MinLoss(q, k) ==
    IF k = 1 THEN q[1]
    ELSE IF FLt(q[k], MinLoss(q, k - 1)) THEN q[k] ELSE MinLoss(q, k - 1)

\* C14: in a train call with a validation set, after every executed epoch the
\* best loss is the least of the validation losses this call has recorded;
\* after the first epoch it is that epoch's loss and the stall counter is 0,
\* whatever the loss.
C14_BestIsMinimumOfRecordedLosses ==
    (BetweenEpochs /\ tr.i >= 1) =>
        /\ tr.loss_max = MinLoss(CallLosses, tr.i)
        /\ tr.i = 1 => (tr.stop_track = 0 /\ tr.loss_max = CallLosses[1])

\* the losses of the call so far are all below the initial loss_max = 1000
\* (a one-hot label gives at most -log(1e-10) = 23.02585)
BelowLossMax == \A k \in 1 .. tr.i : FLt(CallLosses[k], FInt(1000))

\* while every loss is below 1000 the best loss is the least recorded one
BestIsMinimumBelowLossMax ==
    (BetweenEpochs /\ tr.i >= 1 /\ BelowLossMax) =>
        /\ tr.loss_max = MinLoss(CallLosses, tr.i)
        /\ tr.i = 1 => (tr.stop_track = 0 /\ tr.loss_max = CallLosses[1])

\* the first epoch of a call recorded a loss of 1000 or more: the best loss is
\* still 1000 and the epoch counted as stalled
FirstLossNotBest ==
    /\ BetweenEpochs /\ tr.i = 1
    /\ FLe(FInt(1000), CallLosses[1])
    /\ tr.loss_max = FInt(1000) /\ tr.stop_track = 1

\* ------------------------------------------------------------------------
\* gradient_bp for every activation configuration
\* ------------------------------------------------------------------------

ActivationKinds == {"softmax", "relu", "sigmoid"}

\* networks of one layer, or of two layers of two neurons, of both kinds,
\* with every activation kind in every layer
DzNets ==
    {NewLNN(1, Dict1(2), Dict1(f), RandnFixed(1, Dict1(2), LNNKeys(1))) :
        f \in ActivationKinds}
    \cup {NewQNN(1, Dict1(2), Dict1(f), RandnFixed(1, Dict1(2), QNNKeys(1))) :
            f \in ActivationKinds}
    \cup {NewLNN(1, Dict2(2, 2), Dict2(f, g),
                 RandnFixed(1, Dict2(2, 2), LNNKeys(2))) :
            f \in ActivationKinds, g \in ActivationKinds}
    \cup {NewQNN(1, Dict2(2, 2), Dict2(f, g),
                 RandnFixed(1, Dict2(2, 2), QNNKeys(2))) :
            f \in ActivationKinds, g \in ActivationKinds}

InitDz ==
    /\ nn \in DzNets
    /\ optimizer_para = DefaultOptimizerPara
    /\ calls = <<>>
    /\ err = "none"
    /\ out = NoQuery
    /\ tr = NoTrain
    /\ save = NoDir

NextDz ==
    \/ LoadNN
    \/ \E data \in GradData : GradientBp(data)

SpecDz == InitDz /\ [][NextDz]_vars

\* gradient_bp has returned a gradient
BpReturned == out.metric = "gradient_bp" /\ err = "none"

\* a[0], ..., a[L] of the forward pass of the call that filled out
BpActivations ==
    ForwardAll(load_NN(nn, out.para, nn.h, nn.m, nn.v), <<out.point>>, 0)

\* the key whose gradient is np.sum(dz, axis=0) of layer l
DzSumKey(l) == IF nn.kind = "LNN" THEN <<"b", l>> ELSE <<"bb", l>>

\* the column sums of (a[l + 1] - label) / batch_size
LabelDifferenceSum(l) ==
    SumAxis0(DzSoftmaxLoss(BpActivations[l + 2], out.label, Rows(out.point)))

AllZero(g) == \A n \in 1 .. Len(g) : ZeroTensor(g[n][2])

\* C15: in a gradient gradient_bp returned, of either kind of network and
\* whatever the activation kinds of its layers, the terminal layer's dz is
\* (output - label) / batch_size, no other layer's dz is the difference of its
\* output and the label, and the gradient is not zero in every element.
C15_TerminalLayerUsesOutputMinusLabel ==
    BpReturned =>
        /\ GradOf(out.bp, DzSumKey(nn.L - 1)) = LabelDifferenceSum(nn.L - 1)
        /\ \A l \in 0 .. nn.L - 2 :
               GradOf(out.bp, DzSumKey(l)) # LabelDifferenceSum(l)
        /\ ~AllZero(out.bp)

\* the layers of an LNN that are softmax layers are the terminal layer alone
SoftmaxLast ==
    \A l \in 0 .. nn.L - 1 : (nn.activation_func[l] = "softmax") <=> (l = nn.L - 1)

\* the rule holds in every QNN, and in the LNN whose only softmax layer is
\* the terminal one
TerminalRuleElsewhere ==
    (nn.kind = "LNN" /\ ~SoftmaxLast) \/ C15_TerminalLayerUsesOutputMinusLabel

\* an LNN whose terminal layer is not softmax returned a gradient of zeros
LNNReturnsZeros ==
    /\ BpReturned /\ nn.kind = "LNN"
    /\ nn.activation_func[nn.L - 1] # "softmax"
    /\ AllZero(out.bp)

\* an LNN with a softmax layer before the terminal one used dz =
\* (a[l + 1] - label) / batch_size in that layer
LNNHiddenSoftmaxUsesLabel ==
    /\ BpReturned /\ nn.kind = "LNN" /\ nn.L = 2
    /\ nn.activation_func[0] = "softmax"
    /\ GradOf(out.bp, DzSumKey(0)) = LabelDifferenceSum(0)

\* the object of the call that filled out
BpNet == load_NN(nn, out.para, nn.h, nn.m, nn.v)

\* dz of the terminal layer as the call computed it
TerminalDz ==
    IF nn.kind = "LNN" THEN LNNDz(BpNet, BpActivations, out.label, NoDa, nn.L - 1)
    ELSE QNNDz(BpNet, BpActivations, out.label, NoDa, nn.L - 1)

\* da the terminal layer passes to the layer before it
UpstreamDa ==
    IF nn.kind = "LNN"
    THEN Dot(TerminalDz, Transpose(out.para[<<"w", nn.L - 1>>]))
    ELSE QNNDa(BpNet, BpActivations[nn.L],
               Times(TerminalDz, Affine(BpNet, BpActivations[nn.L], "wg", "bg", nn.L - 1)),
               Times(TerminalDz, Affine(BpNet, BpActivations[nn.L], "wr", "br", nn.L - 1)),
               TerminalDz, nn.L - 1)

\* gradient_bp returned for a network of two layers whose first layer is f
HiddenLayerIs(f) == BpReturned /\ nn.L = 2 /\ nn.activation_func[0] = f

\* C16: in a gradient gradient_bp returned for an LNN or a QNN, the dz of a
\* non-terminal relu layer is the upstream da where the layer's output is not
\* 0 and 0 elsewhere, and the dz of a non-terminal sigmoid layer is
\* upstream da * output * (1 - output).
C16_HiddenDzFollowsActivationKind ==
    /\ HiddenLayerIs("relu") =>
           GradOf(out.bp, DzSumKey(0)) = SumAxis0(DzRelu(BpActivations[2], UpstreamDa))
    /\ HiddenLayerIs("sigmoid") =>
           GradOf(out.bp, DzSumKey(0)) = SumAxis0(DzSigmoid(BpActivations[2], UpstreamDa))

\* the dispatch holds in every LNN and in the QNN without a non-terminal relu
\* layer
HiddenDzElsewhere ==
    (nn.kind = "QNN" /\ HiddenLayerIs("relu")) \/ C16_HiddenDzFollowsActivationKind

\* a QNN with a non-terminal relu layer used the sigmoid derivative for it
QNNReluUsesSigmoidDerivative ==
    /\ HiddenLayerIs("relu") /\ nn.kind = "QNN"
    /\ GradOf(out.bp, DzSumKey(0)) = SumAxis0(DzSigmoid(BpActivations[2], UpstreamDa))
    /\ GradOf(out.bp, DzSumKey(0)) # SumAxis0(DzRelu(BpActivations[2], UpstreamDa))

\* zr and zg of layer l in the forward pass of the call that filled out
Zr(l) == Affine(BpNet, BpActivations[l + 1], "wr", "br", l)
Zg(l) == Affine(BpNet, BpActivations[l + 1], "wg", "bg", l)

\* what separates two arrays computed by sums taken in a different order:
\* the last of the Digits digits of da, amplified by the products after it
Rounding == FDec(1, 4 - Digits)

\* the arrays x and y have the same shape and every element of x is the
\* element of y up to rounding
Close(x, y) ==
    /\ x.sh = y.sh
    /\ \A i \in 1 .. Len(x.d) :
           FLe(FAbs(FSub(x.d[i], y.d[i])),
               FMul(Rounding, FMax(FAbs(x.d[i]), FAbs(y.d[i]))))

\* the gradients of the six tensors of layer l are the derivative of
\* z = zr * zg + (a * a) . wb + bb weighted by dz
QuadraticGradients(l, dz) ==
    /\ Close(GradOf(out.bp, <<"wr", l>>),
             Dot(Transpose(BpActivations[l + 1]), Times(dz, Zg(l))))
    /\ Close(GradOf(out.bp, <<"wg", l>>),
             Dot(Transpose(BpActivations[l + 1]), Times(dz, Zr(l))))
    /\ Close(GradOf(out.bp, <<"wb", l>>),
             Dot(Transpose(Times(BpActivations[l + 1], BpActivations[l + 1])), dz))
    /\ Close(GradOf(out.bp, <<"br", l>>), SumAxis0(Times(dz, Zg(l))))
    /\ Close(GradOf(out.bp, <<"bg", l>>), SumAxis0(Times(dz, Zr(l))))
    /\ Close(GradOf(out.bp, <<"bb", l>>), SumAxis0(dz))

\* (dz . wb^T) * a
DaB(l, dz) == Times(Dot(dz, Transpose(out.para[<<"wb", l>>])), BpActivations[l + 1])

\* (dz * zg) . wr^T + (dz * zr) . wg^T + 2 * ((dz . wb^T) * a)
QuadraticDa(l, dz) ==
    Plus(Plus(Dot(Times(dz, Zg(l)), Transpose(out.para[<<"wr", l>>])),
              Dot(Times(dz, Zr(l)), Transpose(out.para[<<"wg", l>>]))),
         Map(DaB(l, dz), LAMBDA x : FMul(FInt(2), x)))

\* dz of the terminal layer of a QNN
QuadraticTerminalDz ==
    DzSoftmaxLoss(BpActivations[nn.L + 1], out.label, Rows(out.point))

\* C17: in a gradient QNN.gradient_bp returned, the gradients of every layer
\* are dWr = a^T.(dz*zg), dWg = a^T.(dz*zr), dWb = (a*a)^T.dz and the column
\* sums of dz*zg, dz*zr and dz, with zr and zg of the forward pass of the
\* call, and the dz of the layer before the terminal one is derived from
\* da = (dz*zg).Wr^T + (dz*zr).Wg^T + 2*((dz.Wb^T)*a) of the terminal layer.
C17_QuadraticBackwardIsDerivativeOfZ ==
    (BpReturned /\ nn.kind = "QNN") =>
        /\ QuadraticGradients(nn.L - 1, QuadraticTerminalDz)
        /\ nn.L = 2 =>
               QuadraticGradients(0, DzSigmoid(BpActivations[2],
                                               QuadraticDa(1, QuadraticTerminalDz)))

\* a QNN of two layers returned a gradient in which the b branch of the
\* terminal layer passed a nonzero da and the first layer's gradient is not 0
C17_Witness ==
    /\ BpReturned /\ nn.kind = "QNN" /\ nn.L = 2
    /\ ~ZeroTensor(DaB(1, QuadraticTerminalDz))
    /\ ~ZeroTensor(GradOf(out.bp, <<"wr", 0>>))
    /\ ~ZeroTensor(GradOf(out.bp, <<"wb", 0>>))

\* ------------------------------------------------------------------------
\* gradient_ng statement by statement
\* ------------------------------------------------------------------------

\* the locals of a gradient_ng call at "tmp_val = self.para[key][idx]" of
\* element i of the n-th key; para0 is self.para as the call found it
NgStarted(net, data) ==
    [metric |-> "gradient_ng", pc |-> "plus", point |-> data.point,
     label |-> data.label, para0 |-> net.para, n |-> 1, i |-> 1,
     tmp_val |-> FZero, fxh1 |-> FZero, fxh2 |-> FZero,
     grad |-> <<<<ParaKeyOrder(net, 0)[1], Zeros(net.para[ParaKeyOrder(net, 0)[1]].sh[1],
                                                 net.para[ParaKeyOrder(net, 0)[1]].sh[2])>>>>]

NgRunning == out.metric = "gradient_ng" /\ out.pc \in {"plus", "minus", "restore"}

NgKey == ParaKeyOrder(nn, 0)[out.n]

\* grad = nn.gradient_ng(point, label) up to the first statement of the loop
NgCall(data) ==
    /\ ~NgRunning
    /\ out' = NgStarted(nn, data)
    /\ err' = "none"
    /\ UNCHANGED <<nn, optimizer_para, calls, tr, save>>

\* the call after self.CRE(point, label) left r
NgEvaluated(r, pc, field) ==
    IF r.err # "none"
    THEN out' = [out EXCEPT !.pc = "raised"] /\ err' = r.err
    ELSE out' = [out EXCEPT !.pc = pc, ![field] = r.val] /\ err' = err

\* tmp_val = self.para[key][idx]; self.para[key][idx] = float(tmp_val) + h;
\* fxh1 = self.CRE(point, label)
NgPlus ==
    /\ NgRunning /\ out.pc = "plus"
    /\ nn' = Perturbed(nn, NgKey, out.i, FAdd(nn.para[NgKey].d[out.i], StepH))
    /\ NgEvaluated(CRE(nn', out.point, out.label), "minus", "fxh1")
    /\ UNCHANGED <<optimizer_para, calls, tr, save>>

\* self.para[key][idx] = float(tmp_val) - h; fxh2 = self.CRE(point, label)
NgMinus ==
    /\ NgRunning /\ out.pc = "minus"
    /\ nn' = Perturbed(nn, NgKey, out.i, FSub(out.para0[NgKey].d[out.i], StepH))
    /\ NgEvaluated(CRE(nn', out.point, out.label), "restore", "fxh2")
    /\ UNCHANGED <<optimizer_para, calls, tr, save>>

\* the element is left at tmp_val - h
LeftPerturbed(net, key, i, tmp_val) == net

\* self.para[key][idx] = tmp_val
Restored(net, key, i, tmp_val) == Perturbed(net, key, i, tmp_val)

\* grad[key][idx] = (fxh1 - fxh2) / (2 * h)
GradWith(grad, n, i, fxh1, fxh2) ==
    [grad EXCEPT ![n][2].d[i] = Difference(fxh1, fxh2)]

\* it.iternext(), the next key with grad[key] = np.zeros_like(self.para[key])
\* when the key is finished, "return grad" after the last key
NgAdvanced(o, net) ==
    IF o.i < Size(net.para[ParaKeyOrder(net, 0)[o.n]])
    THEN [o EXCEPT !.pc = "plus", !.i = o.i + 1]
    ELSE IF o.n < Len(ParaKeyOrder(net, 0))
    THEN [o EXCEPT !.pc = "plus", !.i = 1, !.n = o.n + 1,
                   !.grad = Append(o.grad,
                       <<ParaKeyOrder(net, 0)[o.n + 1],
                         Zeros(net.para[ParaKeyOrder(net, 0)[o.n + 1]].sh[1],
                               net.para[ParaKeyOrder(net, 0)[o.n + 1]].sh[2])>>)]
    ELSE [o EXCEPT !.pc = "returned"]

\* grad[key][idx] = ...; self.para[key][idx] = tmp_val; it.iternext()
NgRestore ==
    /\ NgRunning /\ out.pc = "restore"
    /\ nn' = Restored(nn, NgKey, out.i, out.para0[NgKey].d[out.i])
    /\ out' = NgAdvanced([out EXCEPT !.grad = GradWith(out.grad, out.n, out.i,
                                                       out.fxh1, out.fxh2)], nn)
    /\ UNCHANGED <<optimizer_para, calls, err, tr, save>>

\* nn.load_NN(para, h, m, v) between two calls; the gradient returned before
\* it is dropped
NgLoadNN ==
    /\ ~NgRunning
    /\ nn.para # GradPara(nn)
    /\ nn' = load_NN(nn, GradPara(nn), nn.h, nn.m, nn.v)
    /\ out' = NoQuery
    /\ UNCHANGED <<optimizer_para, calls, err, tr, save>>

NextNg ==
    \/ NgLoadNN
    \/ \E data \in GradData : NgCall(data)
    \/ NgPlus
    \/ NgMinus
    \/ NgRestore

SpecNg == InitGrad /\ [][NextNg]_vars

\* the elements of self.para that are not what the call found
Differing ==
    {<<key, i>> \in UNION {{key} \X (1 .. Size(nn.para[key])) : key \in DOMAIN nn.para} :
        nn.para[key].d[i] # out.para0[key].d[i]}

\* self.CRE has just been evaluated
AtEvaluation == out.metric = "gradient_ng" /\ out.pc \in {"minus", "restore"}

\* C18: when gradient_ng returns, every element of self.para has the value
\* it had before the call and the gradient has exactly the keys of self.para;
\* at each evaluation of the loss exactly one element differs from its
\* original value, by +1e-4 or -1e-4.
C18_NumericalGradientRestoresParameters ==
    /\ (out.metric = "gradient_ng" /\ out.pc = "returned") =>
           /\ nn.para = out.para0
           /\ {out.grad[n][1] : n \in 1 .. Len(out.grad)} = DOMAIN nn.para
           /\ Len(out.grad) = Cardinality(DOMAIN nn.para)
    /\ AtEvaluation =>
           /\ Differing = {<<NgKey, out.i>>}
           /\ nn.para[NgKey].d[out.i] \in
                  {FAdd(out.para0[NgKey].d[out.i], StepH),
                   FSub(out.para0[NgKey].d[out.i], StepH)}

\* a call has gone through every element and returned a gradient that is not
\* zero, with the parameters as it found them
C18_Witness ==
    /\ out.metric = "gradient_ng" /\ out.pc = "returned"
    /\ ~AllZero(out.grad)
    /\ nn.para = out.para0

\* the statements of gradient_ng give the gradient the whole call is
\* modelled to return
NgStepsGiveGradient ==
    (out.metric = "gradient_ng" /\ out.pc = "returned") =>
        out.grad = gradient_ng(nn, out.point, out.label).val

\* ------------------------------------------------------------------------
\* The scale of the initial weights
\* ------------------------------------------------------------------------

\* a network object has been constructed
Built == out.metric = "construct" /\ err = "none" /\ nn # NoNet

\* the width of what feeds layer l
InWidth(l) == IF l = 0 THEN nn.D ELSE nn.neuron_num[l - 1]

\* the scale of the weights of layer l: 0.01 in an LNN; in a QNN
\* sqrt(1 / in_width) for a sigmoid layer, sqrt(2 / in_width) for a relu
\* layer and 0.01 otherwise
InitScale(l) ==
    IF nn.kind = "LNN" THEN FDec(1, 0 - 2)
    ELSE IF nn.activation_func[l] = "sigmoid" THEN FSqrt(FDiv(FOne, FInt(InWidth(l))))
    ELSE IF nn.activation_func[l] = "relu" THEN FSqrt(FDiv(FInt(2), FInt(InWidth(l))))
    ELSE FDec(1, 0 - 2)

\* the array np.random.randn returned for the weight key
Drawn(key) ==
    RandnSpread(nn.D, nn.neuron_num, DOMAIN nn.para)[key]

\* C19: every weight tensor of layer l of a constructed network is the
\* np.random.randn draw times the scale of the layer: 0.01 in the standard
\* network whatever the activation; in the quadratic network sqrt(1/in_width)
\* for sigmoid, sqrt(2/in_width) for relu and 0.01 otherwise, the same for the
\* branches r, g and b, with in_width = D for l = 0 and the width of layer
\* l - 1 otherwise.
C19_InitScaleFollowsActivation ==
    Built =>
        \A key \in {k \in DOMAIN nn.para : IsWeight(k)} :
            \A i \in 1 .. Size(nn.para[key]) :
                nn.para[key].d[i] = FMul(InitScale(key[2]), Drawn(key).d[i])

\* a QNN with a sigmoid layer fed by D = 2 inputs and a relu layer fed by 2
\* neurons: the weights drawn as 1 are sqrt(1/2) in layer 0 and 1 in layer 1,
\* in the three branches
C19_Witness ==
    /\ Built /\ nn.kind = "QNN" /\ nn.L = 2 /\ nn.D = 2 /\ nn.neuron_num[0] = 2
    /\ nn.activation_func[0] = "sigmoid" /\ nn.activation_func[1] = "relu"
    /\ \A r \in {"wr", "wg", "wb"} :
           /\ nn.para[<<r, 0>>].d[1] = FSqrt(FDec(5, 0 - 1))
           /\ nn.para[<<r, 1>>].d[1] = FOne

\* ------------------------------------------------------------------------
\* LNN.train with the default optimizer
\* ------------------------------------------------------------------------

\* a train call made without the optimizer argument
DefaultOptimizerCall == tr.pc # "idle" /\ tr.args.optimizer = UnboundRMSprop

\* C20: a train call without an explicit optimizer raises nothing, and every
\* epoch it has executed applied one optimizer step to the network with the
\* gradient computed in that epoch.
C20_DefaultOptimizerRuns ==
    DefaultOptimizerCall =>
        /\ tr.pc # "raised" /\ err = "none"
        /\ tr.steps = tr.i /\ tr.gradients = tr.i

\* what the code does: unless the loop breaks before its first pass, the call
\* raises TypeError in epoch 0, after gradient_bp and before any step or record
DefaultOptimizerRaises ==
    DefaultOptimizerCall =>
        /\ tr.i = 0 /\ tr.steps = 0
        /\ tr.pc = "raised" => (err = "TypeError" /\ tr.gradients = 1)
        /\ tr.pc = "returned" => tr.args.stop_point <= 0

\* a call without the optimizer argument has raised TypeError
DefaultOptimizerRaised ==
    DefaultOptimizerCall /\ tr.pc = "raised" /\ err = "TypeError"

\* ------------------------------------------------------------------------
\* The iteration count of Adam across train calls
\* ------------------------------------------------------------------------

\* the running train call uses Adam and has taken its first step
FirstAdamStepTaken ==
    tr.pc \in {"loop", "returned", "raised"} /\ tr.args.optimizer = "Adam" /\ tr.steps = 1

\* C21: after the first Adam step of a train call the iteration count in the
\* optimizer options, from which that step computed lr_t, is 1, whatever
\* calls were made with the same options before.
C21_AdamCountStartsAtOneInEachCall ==
    FirstAdamStepTaken => optimizer_para.iter = 1

\* the count holds while a call has taken no more than its first step, in the
\* first train call
CountStartsAtOneInFirstCall ==
    (FirstAdamStepTaken /\ tr.n = 1) => optimizer_para.iter = 1

\* the first Adam step of a second train call used a count above 1
AdamCountCarriedOver ==
    FirstAdamStepTaken /\ tr.n = 2 /\ optimizer_para.iter > 1

=============================================================================
